---- MODULE Spec2Model ----
(***************************************************************************)
(* A model of arke: the REST rate-limit engine (timed Lock, Bucket,        *)
(* HTTPClient.request), the window limiter TimePer, the shard Manager     *)
(* (start, identify concurrency, rescale, close), the gateway Shard        *)
(* (connect, disconnect, read loop, heartbeat loop, opcode and close-code  *)
(* handlers, delivery of DISPATCH frames to listeners) and the two event   *)
(* dispatchers, RawDispatcher and TypedDispatcher.                         *)
(*                                                                         *)
(* Time is discrete.  Every pending asyncio timer (loop.call_later,        *)
(* asyncio.sleep) is a countdown that the Tick action decrements; a timer  *)
(* fires when its countdown is 0 and time does not advance past a due      *)
(* timer.  A coroutine runs atomically from one suspension point (await)   *)
(* to the next, as asyncio tasks do.  A task suspended on a future is      *)
(* "waiting"; once the future is resolved it is "ready" and resumes in a   *)
(* later step without re-checking the condition it waited for, exactly as  *)
(* asyncio.Event.wait() and "await future" behave.  Ready tasks run before *)
(* time advances and before further network responses are processed.       *)
(*                                                                         *)
(* Delays are counted in whole ticks: a countdown of 0 is a delay shorter  *)
(* than one tick.  Timers that are due in the same tick therefore fire in  *)
(* any order, and a task woken by one of them may run before the next one  *)
(* fires.  The REST clock ticks every 0.2 s (the bucket lag), the clock of *)
(* the manager once a second.                                              *)
(*                                                                         *)
(* Task.cancel() on the task that is running, or on a task that awaits the *)
(* running handler through gather, raises CancelledError in the running    *)
(* code at its next await that suspends.  The shard specifications do not  *)
(* count time: a sleeping heartbeat task may wake in any step.             *)
(***************************************************************************)
EXTENDS Integers, Sequences, FiniteSets, TLC

\* ------------------------------------------------------------------ bounds

\* Largest X-RateLimit-Reset-After a response carries (ticks).
MaxResetAfter == 1
\* Largest Retry-After a 429 response carries (ticks).
MaxRetryAfter == 1
\* Largest X-RateLimit-Limit a response carries.
MaxLimit == 2
\* Retryable responses (429, 500, 502, 3xx) the server gives one request in
\* the concurrent REST specification.
MaxFailures == 1

\* Largest `limit` of the TimePer limiter of the window specification.
MaxTPLimit == 2
\* `per` of the TimePer limiter of the window specification (ticks).
TPPer == 3
\* Largest max_concurrency the server advertises.
MaxConcurrency == 2
\* Largest number of shards Manager.start and Manager.rescale ask for.
MaxShards == 3
\* Largest number of Shard objects the manager creates.
MaxShardObjs == 5

\* Largest number of shards asked for where rescale() may fail.
MaxRescale == 2

\* Largest number of websockets one shard opens.
MaxWs == 2
\* Largest number of HELLO frames the gateway sends on one websocket.
MaxHello == 2
\* Largest sequence number of a DISPATCH.
MaxSeq == 2

\* Tasks that call Shard.disconnect() on one shard.
MaxCallers == 2

\* Listeners under one event of a RawDispatcher.
MaxListeners == 1
\* Futures the wait_for() calls of a RawDispatcher create.
MaxWaiters == 3

\* DISPATCH frames one connection delivers.
MaxFrames == 3
\* By-name listeners of the event the DISPATCH frames carry.
EventListeners == 3

\* Entries of the event handler list of a RawDispatcher.
MaxHandlers == 3

\* Listeners added to a TypedDispatcher.
MaxTListeners == 2
\* Application events dispatched on a TypedDispatcher.
MaxTDispatches == 1

\* ------------------------------------------------------- program constants

MAX_RETRIES == 5
\* TimePer(self._max_concurrency, 5): the identify window, in seconds (the
\* clock of the manager's specification ticks once a second)
IdentifyPer == 5

\* HTTPClient(bucket_lag=0.2): one tick of the model's clock is 0.2 s
BucketLag == 1

\* the tasks that call HTTPClient.request
Reqs == {1, 2, 3}

\* the tasks that call TimePer.acquire in the window specification
Tasks == {1, 2, 3, 4}

\* route.bucket values of the routes requested, and the server's hashes.
LocalKeys == {"/a", "/b"}
Hashes == {"h1", "h2"}
\* dict.get() finding nothing / a header that is absent
NoHash == ""
\* HTTP statuses the server answers with: one per branch of request()
Statuses == {200, 304, 404, 429, 500, 503}

\* ----------------------------------------------------------------- helpers

RemoveAt(s, i) == [j \in 1..(Len(s) - 1) |-> IF j < i THEN s[j] ELSE s[j + 1]]

DecAll(s) == [j \in 1..Len(s) |-> IF s[j] > 0 THEN s[j] - 1 ELSE 0]

Max(a, b) == IF a >= b THEN a ELSE b

Dec(n) == IF n > 0 THEN n - 1 ELSE n

\* ------------------------------------------------ internal/ratelimit.py Lock

\* Lock.__init__: an asyncio.Event that starts set (open).  timers holds the
\* countdowns of the loop.call_later(time, self.set) calls still pending.
LockNew == [isset |-> TRUE, timers |-> << >>]

\* a lock_for that schedules its timer whether or not the lock is closed
Lock_lock_for_stacked(l, time) ==
    [isset |-> FALSE, timers |-> Append(l.timers, time)]

\* Lock.lock_for(time)
Lock_lock_for(l, time) ==
    IF ~l.isset
    THEN l
    ELSE [isset |-> FALSE, timers |-> Append(l.timers, time)]

\* the pending call_later callback number i runs: Event.set()
Lock_set(l, i) == [isset |-> TRUE, timers |-> RemoveAt(l.timers, i)]

\* --------------------------------------------- internal/ratelimit.py TimePer

\* TimePer.__init__(limit, per).  pending is the queue of futures (named by
\* the task that awaits them), timers the countdowns of the pending
\* loop.call_later(self.per, self._reset) calls.
TimePerNew(limit, per) ==
    [limit |-> limit, remaining |-> limit, per |-> per, pending |-> << >>,
     pending_reset |-> FALSE, timers |-> << >>]

\* an acquire() that schedules a reset on every return
TimePer_take_stacked(l) ==
    [l EXCEPT !.remaining = @ - 1,
              !.pending_reset = TRUE,
              !.timers = Append(@, l.per)]

\* TimePer.acquire() after its "if self.remaining == 0" block
TimePer_take(l) ==
    [l EXCEPT !.remaining = @ - 1,
              !.pending_reset = TRUE,
              !.timers = IF l.pending_reset THEN @ ELSE Append(@, l.per)]

\* queue.Queue(limit).put_nowait: Full when maxsize > 0 and qsize >= maxsize
QueueFull(l) == l.limit > 0 /\ Len(l.pending) >= l.limit

\* TimePer.acquire() from the call to its first suspension or return:
\* out is "pass" (returned), "wait" (suspended on the future fut) or
\* "full" (put_nowait raised queue.Full)
TimePer_acquire(l, fut) ==
    IF l.remaining = 0
    THEN IF QueueFull(l)
         THEN [l |-> l, out |-> "full"]
         ELSE [l |-> [l EXCEPT !.pending = Append(@, fut)], out |-> "wait"]
    ELSE [l |-> TimePer_take(l), out |-> "pass"]

\* TimePer._reset(), run by the pending call_later number i; every queued
\* future gets its result
TimePer_reset(l, i) ==
    [l EXCEPT !.pending_reset = FALSE, !.remaining = l.limit,
              !.pending = << >>, !.timers = RemoveAt(@, i)]

TimerDue(timers) == \E i \in 1..Len(timers) : timers[i] = 0

\* the ages of the events of the last `per` ticks, one tick later
Aged(ages, per) ==
    LET older == [j \in 1..Len(ages) |-> ages[j] + 1]
    IN  SelectSeq(older, LAMBDA a : a < per)

\* ------------------------------------------------------ http/ratelimit.py

\* Bucket.__init__ (reset, the absolute datetime, is written and never read)
BucketNew ==
    [bucket |-> NoHash, reset_after |-> 0, lock |-> LockNew,
     limit |-> 1, remaining |-> 1, enabled |-> TRUE]

\* an update_from that takes X-RateLimit-Remaining as it comes
Bucket_update_from_overwrite(b, h) ==
    IF ~b.enabled THEN b
    ELSE IF h.x_bucket = NoHash THEN [b EXCEPT !.enabled = FALSE]
    ELSE
      LET b1 == IF b.bucket = NoHash THEN [b EXCEPT !.bucket = h.x_bucket] ELSE b
      IN  IF h.is_global THEN b1
          ELSE
            LET b3 == [b1 EXCEPT !.limit = h.x_limit,
                                 !.remaining = h.x_remaining]
            IN  IF h.x_reset_after > b3.reset_after
                THEN [b3 EXCEPT !.reset_after = h.x_reset_after + BucketLag]
                ELSE b3

\* Bucket.update_from(response); h holds the response's headers
Bucket_update_from(b, h) ==
    IF ~b.enabled THEN b
    ELSE IF h.x_bucket = NoHash THEN [b EXCEPT !.enabled = FALSE]
    ELSE
      LET b1 == IF b.bucket = NoHash THEN [b EXCEPT !.bucket = h.x_bucket] ELSE b
      IN  IF h.is_global THEN b1
          ELSE
            LET b2 == [b1 EXCEPT !.limit = h.x_limit]
                b3 == IF h.x_remaining < b2.remaining \/ b2.remaining = 0
                      THEN [b2 EXCEPT !.remaining = h.x_remaining]
                      ELSE b2
            IN  IF h.x_reset_after > b3.reset_after
                THEN [b3 EXCEPT !.reset_after = h.x_reset_after + BucketLag]
                ELSE b3

\* Bucket.lock_for(time)
Bucket_lock_for(b, time) ==
    IF ~b.lock.isset
    THEN b
    ELSE [b EXCEPT !.lock = Lock_lock_for(b.lock, time)]

\* Bucket.acquire(auto_lock=...) up to its "await self._lock.wait()"
Bucket_acquire(b, auto_lock) ==
    IF b.remaining = 0 /\ auto_lock
    THEN [Bucket_lock_for(b, b.reset_after) EXCEPT !.remaining = 1]
    ELSE b

\* ---------------------------------------------------------- http/client.py

VARIABLES
    local_to_discord,  \* HTTPClient._local_to_discord: local key -> hash
    buckets,           \* HTTPClient._buckets: key -> Bucket (0: no entry)
    bucketObjs,        \* the Bucket instances, in order of construction
    global_lock,       \* HTTPClient._global_lock
    req,               \* the request() calls: position and local variables
    cfg,               \* the run's environment: which tasks call request(),
                       \*   the routes and hashes in play, and how many
                       \*   retryable responses the server gives one request
    mustClose,         \* per Bucket: time left of the reset_after window
                       \*   opened by the last response with remaining = 0
    gMustClose         \* time left of the longest Retry-After of a global 429

httpVars == <<local_to_discord, buckets, bucketObjs, global_lock, req,
              cfg, mustClose, gMustClose>>

\* f"{discord_hash}:{local_bucket}"
CompositeKey(hash, local) == hash \o ":" \o local

AllKeys == LocalKeys \cup {CompositeKey(h, l) : h \in Hashes, l \in LocalKeys}

BucketIds == 1..(2 * Cardinality(Reqs))

ReqNew ==
    [pc |-> "idle", local |-> "", discord_hash |-> NoHash, key |-> "",
     bucket |-> 0, try_ |-> 0, status |-> 0, is_global |-> FALSE,
     retry_after |-> 0, timer |-> -1, sends |-> 0, migrated |-> FALSE,
     result |-> ""]

\* The client's state as one call of request() sees and changes it.
World(r) ==
    [rq |-> req[r], bo |-> bucketObjs, gl |-> global_lock,
     l2d |-> local_to_discord, bks |-> buckets]

\* HTTPClient._get_bucket(key, autocreate=...)
GetBucket(W, key, autocreate) ==
    IF W.bks[key] = 0 /\ autocreate
    THEN [w |-> [W EXCEPT !.bo = Append(@, BucketNew),
                          !.bks[key] = Len(W.bo) + 1],
          b |-> Len(W.bo) + 1]
    ELSE [w |-> W, b |-> W.bks[key]]

\* the return / raise of request(): its local variables are gone (the
\* record keeps the number of sends and the status of the last response)
Return(W, result) ==
    [W EXCEPT !.rq = [ReqNew EXCEPT !.pc = "done", !.result = result,
                                    !.sends = W.rq.sends,
                                    !.status = W.rq.status]]

\* async with self.http.request(...): the HTTP request is sent
Send(W) ==
    [W EXCEPT !.rq.pc = "inflight", !.rq.sends = @ + 1]

\* async with bucket: Bucket.__aenter__ -> acquire()
BucketEnter(W) ==
    LET b  == Bucket_acquire(W.bo[W.rq.bucket], TRUE)
        W1 == [W EXCEPT !.bo[W.rq.bucket] = b]
    IN  IF b.lock.isset THEN Send(W1) ELSE [W1 EXCEPT !.rq.pc = "bwait188"]

\* async with self._global_lock: Lock.__aenter__ -> wait().  The previous
\* attempt's response is not read again (status, is_global and retry_after
\* are assigned before their next use), so its values are dropped here.
GlobalEnter(W) ==
    LET W1 == [W EXCEPT !.rq.status = 0, !.rq.is_global = FALSE,
                        !.rq.retry_after = 0]
    IN  IF W.gl.isset THEN BucketEnter(W1) ELSE [W1 EXCEPT !.rq.pc = "gwait186"]

\* for try_ in range(MAX_RETRIES): ... and the _log.error after the loop
LoopTop(W) ==
    IF W.rq.try_ >= MAX_RETRIES
    THEN Return(W, "none")
    ELSE GlobalEnter(W)

\* a retry loop that does not count the attempt
ContinueUncounted(W) == LoopTop(W)

\* "continue", and falling off the end of the loop body
Continue(W) == LoopTop([W EXCEPT !.rq.try_ = @ + 1])

\* the 429 branch of request()
On429(W) ==
    IF W.rq.is_global
    THEN LET g == Lock_lock_for(W.gl, W.rq.retry_after)
             W1 == [W EXCEPT !.gl = g]
         IN  IF g.isset THEN Continue(W1) ELSE [W1 EXCEPT !.rq.pc = "gwait240"]
    ELSE LET b == Bucket_acquire(
                      Bucket_lock_for(W.bo[W.rq.bucket], W.rq.retry_after),
                      FALSE)
             W1 == [W EXCEPT !.bo[W.rq.bucket] = b]
         IN  IF b.lock.isset THEN Continue(W1) ELSE [W1 EXCEPT !.rq.pc = "bwait249"]

\* asyncio.sleep(2 * try_ + 1), in ticks of 0.2 s
SleepTicks(try_) == 5 * (2 * try_ + 1)

\* request(): the branches on resp.status
Interpret(W) ==
    LET s == W.rq.status
    IN  IF 300 > s /\ s >= 200 THEN Return(W, "value")
        ELSE IF s = 429 THEN On429(W)
        ELSE IF 500 > s /\ s >= 400 THEN Return(W, "raised")
        ELSE IF 600 > s /\ s >= 500
             THEN IF s \in {500, 502}
                  THEN [W EXCEPT !.rq.pc = "sleep276",
                                 !.rq.timer = SleepTicks(W.rq.try_)]
                  ELSE Return(W, "raised")
        ELSE Continue(W)

\* a migration that fetches the new key with autocreate left at its default
MigrateAutocreate(W) ==
    LET hash == W.bo[W.rq.bucket].bucket
        key  == CompositeKey(hash, W.rq.local)
        W1   == [W EXCEPT !.rq.discord_hash = hash, !.rq.key = key,
                          !.rq.migrated = TRUE, !.l2d[W.rq.local] = hash]
        got  == GetBucket(W1, key, TRUE)
    IN  [got.w EXCEPT !.rq.bucket = got.b]

\* request(): the migration block under "if discord_hash != bucket.bucket"
Migrate(W) ==
    LET hash == W.bo[W.rq.bucket].bucket
        key  == CompositeKey(hash, W.rq.local)
        W1   == [W EXCEPT !.rq.discord_hash = hash, !.rq.key = key,
                          !.rq.migrated = TRUE, !.l2d[W.rq.local] = hash]
        got  == GetBucket(W1, key, FALSE)
    IN  IF got.b # 0
        THEN [got.w EXCEPT !.rq.bucket = got.b]
        ELSE [W1 EXCEPT !.bks[key] = W.rq.bucket]

\* request(): from the response to the next suspension point
OnResponse(W, h) ==
    LET W1 == [W EXCEPT !.bo[W.rq.bucket] = Bucket_update_from(@, h),
                        !.rq.status = h.status,
                        !.rq.is_global = h.is_global,
                        !.rq.retry_after = h.retry_after]
    IN  IF W1.bo[W1.rq.bucket].enabled
        THEN LET W2 == IF W1.rq.discord_hash # W1.bo[W1.rq.bucket].bucket
                       THEN Migrate(W1) ELSE W1
                 b  == Bucket_acquire(W2.bo[W2.rq.bucket], TRUE)
                 W3 == [W2 EXCEPT !.bo[W2.rq.bucket] = b]
             IN  IF b.lock.isset THEN Interpret(W3)
                 ELSE [W3 EXCEPT !.rq.pc = "bwait211"]
        ELSE Interpret(W1)

\* request(): from the call to the first suspension point
OnCall(W, local) ==
    LET hash == W.l2d[local]
        key  == IF hash # NoHash THEN CompositeKey(hash, local) ELSE local
        got  == GetBucket(W, key, TRUE)
    IN  LoopTop([got.w EXCEPT !.rq.local = local, !.rq.discord_hash = hash,
                              !.rq.key = key, !.rq.bucket = got.b,
                              !.rq.try_ = 0])

\* the arguments of request() that its checks read: the route's method, the
\* json payload (None, an empty payload, a payload) and the per-call
\* headers (None, a dict without and a dict with an "Authorization" key)
Args ==
    [method : {"GET", "POST"}, json : {"None", "empty", "payload"},
     headers : {"None", "other", "Authorization"}]

\* the arguments of a call that passes the checks at the top of request()
PlainArgs == [method |-> "POST", json |-> "payload", headers |-> "None"]

\* bool(json), bool(headers): None and empty containers are false
Truthy(x) == x \notin {"None", "empty"}

\* the two "raise ValueError" tests at the top of request()
Rejected(a) ==
    \/ a.method = "GET" /\ Truthy(a.json)
    \/ Truthy(a.headers) /\ a.headers = "Authorization"

\* a request() that looks up its bucket before it checks its arguments
HTTPClient_request_late(W, local, a) ==
    IF Rejected(a)
    THEN Return(GetBucket(W, local, TRUE).w, "ValueError")
    ELSE OnCall(W, local)

\* HTTPClient.request(route, json=..., headers=...): from the call to the
\* first suspension point or the raise
HTTPClient_request(W, local, a) ==
    IF Rejected(a) THEN Return(W, "ValueError") ELSE OnCall(W, local)

GReady == {"gready186", "gready240"}
BReady == {"bready188", "bready211", "bready249"}
GWait == {"gwait186", "gwait240"}
BWait == {"bwait188", "bwait211", "bwait249"}

NoReady == \A r \in Reqs : req[r].pc \notin GReady \cup BReady

\* the responses the server can give
Responses ==
    {h \in [status : Statuses, x_bucket : Hashes \cup {NoHash},
            is_global : BOOLEAN, x_limit : 1..MaxLimit,
            x_remaining : 0..MaxLimit, x_reset_after : 0..MaxResetAfter,
            retry_after : 0..MaxRetryAfter] :
        /\ h.x_remaining <= h.x_limit
        /\ h.is_global => h.status = 429
        /\ h.status # 429 => h.retry_after = 0
        /\ (h.x_bucket = NoHash \/ h.is_global) =>
              (h.x_limit = 1 /\ h.x_remaining = 0 /\ h.x_reset_after = 0)}

Retryable(s) == s \in {304, 429, 500, 502}

\* the calls whose HTTP request is with the server
Inflight == {r \in Reqs : req[r].pc = "inflight"}

\* what a step of request r leaves in the client
Commit(r, W) ==
    \E w \in {W} :
        /\ req' = [req EXCEPT ![r] = w.rq]
        /\ bucketObjs' = w.bo
        /\ global_lock' = w.gl
        /\ local_to_discord' = w.l2d
        /\ buckets' = w.bks

HTTPInit ==
    /\ local_to_discord = [l \in LocalKeys |-> NoHash]
    /\ buckets = [k \in AllKeys |-> 0]
    /\ bucketObjs = << >>
    /\ global_lock = LockNew
    /\ req = [r \in Reqs |-> ReqNew]
    /\ mustClose = [b \in BucketIds |-> 0]
    /\ gMustClose = 0

\* a task calls HTTPClient.request(route) with route.bucket = local
Call(r, local, a) ==
    /\ req[r].pc = "idle"
    /\ r \in cfg.callers
    /\ local \in cfg.locals
    /\ a \in cfg.args
    /\ \A q \in Reqs : q < r => req[q].pc # "idle"
    /\ Commit(r, HTTPClient_request(World(r), local, a))
    /\ UNCHANGED <<cfg, mustClose, gMustClose>>

\* the response of request r's HTTP call arrives and is processed
Respond(r, h) ==
    /\ req[r].pc = "inflight"
    /\ NoReady
    /\ h.x_bucket \in cfg.hashes \cup {NoHash}
    /\ h.status \in cfg.statuses
    /\ h.x_limit <= cfg.limit
    /\ Retryable(h.status) => req[r].try_ < cfg.failures
    /\ LET W == OnResponse(World(r), h)
           b == req[r].bucket
           u == Bucket_update_from(bucketObjs[b], h)
       IN  /\ Commit(r, W)
           /\ mustClose' =
                IF u.enabled /\ u.remaining = 0 /\ bucketObjs[b].remaining # 0
                THEN [mustClose EXCEPT ![b] = Max(@, u.reset_after)]
                ELSE mustClose
           /\ gMustClose' =
                IF h.status = 429 /\ h.is_global /\ W.rq.pc # "bwait211"
                THEN Max(gMustClose, h.retry_after)
                ELSE gMustClose
    /\ UNCHANGED cfg

\* a request woken from a lock wait resumes
Resume(r) ==
    /\ req[r].pc \in GReady \cup BReady
    /\ LET W == World(r)
           R == CASE req[r].pc = "gready186" -> BucketEnter(W)
                  [] req[r].pc = "bready188" -> Send(W)
                  [] req[r].pc = "bready211" -> Interpret(W)
                  [] req[r].pc = "gready240" -> Continue(W)
                  [] req[r].pc = "bready249" -> Continue(W)
       IN  /\ Commit(r, R)
           /\ gMustClose' =
                IF req[r].pc = "bready211" /\ req[r].status = 429
                   /\ req[r].is_global
                THEN Max(gMustClose, req[r].retry_after)
                ELSE gMustClose
    /\ UNCHANGED <<cfg, mustClose>>

\* asyncio.sleep(2 * try_ + 1) ends, the request continues with the loop
SleepDone(r) ==
    /\ req[r].pc = "sleep276"
    /\ req[r].timer = 0
    /\ Commit(r, Continue([World(r) EXCEPT !.rq.timer = -1]))
    /\ UNCHANGED <<cfg, mustClose, gMustClose>>

Woken(rq, waits, b) ==
    IF rq.pc \in waits /\ (b = 0 \/ rq.bucket = b)
    THEN [rq EXCEPT !.pc = CASE rq.pc = "gwait186" -> "gready186"
                            [] rq.pc = "gwait240" -> "gready240"
                            [] rq.pc = "bwait188" -> "bready188"
                            [] rq.pc = "bwait211" -> "bready211"
                            [] rq.pc = "bwait249" -> "bready249"]
    ELSE rq

\* the global lock's timer fires: set() resolves every waiter's future
GlobalTimer ==
    /\ \E i \in 1..Len(global_lock.timers) :
          /\ global_lock.timers[i] = 0
          /\ global_lock' = Lock_set(global_lock, i)
    /\ req' = [r \in Reqs |-> Woken(req[r], GWait, 0)]
    /\ UNCHANGED <<local_to_discord, buckets, bucketObjs, cfg,
                   mustClose, gMustClose>>

\* the timer of bucket b's lock fires
BucketTimer(b) ==
    /\ b \in 1..Len(bucketObjs)
    /\ \E i \in 1..Len(bucketObjs[b].lock.timers) :
          /\ bucketObjs[b].lock.timers[i] = 0
          /\ bucketObjs' = [bucketObjs EXCEPT ![b].lock = Lock_set(@, i)]
    /\ req' = [r \in Reqs |-> Woken(req[r], BWait, b)]
    /\ UNCHANGED <<local_to_discord, buckets, global_lock, cfg,
                   mustClose, gMustClose>>

HTTPTimerDue ==
    \/ \E i \in 1..Len(global_lock.timers) : global_lock.timers[i] = 0
    \/ \E b \in 1..Len(bucketObjs) :
          \E i \in 1..Len(bucketObjs[b].lock.timers) :
              bucketObjs[b].lock.timers[i] = 0
    \/ \E r \in Reqs : req[r].pc = "sleep276" /\ req[r].timer = 0

HTTPTimerPending ==
    \/ global_lock.timers # << >>
    \/ \E b \in 1..Len(bucketObjs) : bucketObjs[b].lock.timers # << >>
    \/ \E r \in Reqs : req[r].pc = "sleep276"

\* one unit of time passes
HTTPTick ==
    /\ NoReady
    /\ ~HTTPTimerDue
    /\ HTTPTimerPending
    /\ global_lock' = [global_lock EXCEPT !.timers = DecAll(@)]
    /\ bucketObjs' = [b \in 1..Len(bucketObjs) |->
                        [bucketObjs[b] EXCEPT !.lock.timers = DecAll(@)]]
    /\ req' = [r \in Reqs |-> [req[r] EXCEPT !.timer = Dec(@)]]
    /\ mustClose' = [b \in BucketIds |-> Dec(mustClose[b])]
    /\ gMustClose' = Dec(gMustClose)
    /\ UNCHANGED <<local_to_discord, buckets, cfg>>

\* ------------------------------------- one Bucket driven by its own methods

\* update_from(response) is called on the first Bucket
BKUpdateFrom(h) ==
    /\ bucketObjs' = [bucketObjs EXCEPT ![1] = Bucket_update_from(@, h)]
    /\ UNCHANGED <<local_to_discord, buckets, global_lock, req, cfg,
                   mustClose, gMustClose>>

\* acquire(auto_lock=...) is called on the first Bucket; the caller's wait
\* on the lock has no effect on the Bucket
BKAcquire(auto_lock) ==
    /\ bucketObjs' = [bucketObjs EXCEPT ![1] = Bucket_acquire(@, auto_lock)]
    /\ UNCHANGED <<local_to_discord, buckets, global_lock, req, cfg,
                   mustClose, gMustClose>>

\* ------------------------------------------- TimePer under concurrent tasks

VARIABLES
    tp,        \* the TimePer instance
    task,      \* per task: where its acquire() call stands
    acqAge     \* the ages (ticks) of the acquire() returns of the last
               \*   tp.per ticks, oldest first

tpVars == <<tp, task, acqAge>>

TPIdle ==
    /\ tp = TimePerNew(1, TPPer)
    /\ task = [t \in Tasks |-> "unused"]
    /\ acqAge = << >>

TPInit ==
    /\ \E limit \in 1..MaxTPLimit : tp = TimePerNew(limit, TPPer)
    /\ task = [t \in Tasks |-> "idle"]
    /\ acqAge = << >>

TPNoReady == \A t \in Tasks : task[t] # "ready"

\* task t calls acquire()
TPAcquire(t) ==
    /\ task[t] = "idle"
    /\ \A u \in Tasks : u < t => task[u] # "idle"
    /\ LET a == TimePer_acquire(tp, t)
       IN  /\ tp' = a.l
           /\ task' = [task EXCEPT ![t] =
                          CASE a.out = "pass" -> "acquired"
                            [] a.out = "wait" -> "waiting"
                            [] a.out = "full" -> "failed"]
           /\ acqAge' = IF a.out = "pass" THEN Append(acqAge, 0) ELSE acqAge

\* task t, whose future got its result, resumes after "await future"
TPResume(t) ==
    /\ task[t] = "ready"
    /\ tp' = TimePer_take(tp)
    /\ task' = [task EXCEPT ![t] = "acquired"]
    /\ acqAge' = Append(acqAge, 0)

\* the reset timer fires
TPReset ==
    /\ \E i \in 1..Len(tp.timers) :
          /\ tp.timers[i] = 0
          /\ tp' = TimePer_reset(tp, i)
    /\ task' = [t \in Tasks |->
                  IF \E j \in 1..Len(tp.pending) : tp.pending[j] = t
                  THEN "ready" ELSE task[t]]
    /\ UNCHANGED acqAge

\* one unit of time passes
TPTick ==
    /\ TPNoReady
    /\ ~TimerDue(tp.timers)
    /\ tp.timers # << >> \/ acqAge # << >>
    /\ tp' = [tp EXCEPT !.timers = DecAll(@)]
    /\ acqAge' = Aged(acqAge, tp.per)
    /\ UNCHANGED task

\* task t is cancelled while its acquire() is suspended in "await future".
\* CancelledError is raised at the await, also when the future already has
\* its result and the task has not resumed yet; the handler takes the future
\* out of the queue and returns. deque.remove raises ValueError for a future
\* that _reset has already taken out.
TPCancel(t) ==
    /\ task[t] \in {"waiting", "ready"}
    /\ tp' = [tp EXCEPT !.pending = SelectSeq(@, LAMBDA f : f # t)]
    /\ task' = [task EXCEPT ![t] =
                   IF \E j \in 1..Len(tp.pending) : tp.pending[j] = t
                   THEN "cancelled" ELSE "error"]
    /\ UNCHANGED acqAge

\* ------------------------------------------------------ gateway/manager.py

VARIABLES
    max_concurrency,       \* Manager._max_concurrency, 0 for None
    shards,                \* Manager.shards
    identify_ratelimits,   \* Manager._identify_ratelimits: key -> limiter,
                           \*   0 where the key is absent
    limiters,              \* the TimePer objects _create_shard made
    shardObjs,             \* the Shard objects _create_shard made
    current_shards,        \* Manager.current_shards (indices of shardObjs)
    pending_shards,        \* Manager.pending_shards (indices of shardObjs)
    pending_shard_count,   \* Manager._pending_shard_count, -1 for None
    rescaling,             \* rescale() is suspended in gather(*shard_connects)
    idAge                  \* per limiter: the ages (seconds) of the IDENTIFYs
                           \*   its shards sent in the last IdentifyPer seconds

mgrVars == <<max_concurrency, shards, identify_ratelimits, limiters, shardObjs,
             current_shards, pending_shards, pending_shard_count, rescaling,
             idAge>>

None == -1

\* Shard.__init__; pc is where the shard's connection stands:
\*   connecting  connect() is awaiting connect_gateway
\*   open        _connection_loop is reading the websocket
\*   hello       the _handle_hello task was created by the dispatcher
\*   idwait      _handle_hello is suspended in _identify_ratelimit.acquire()
\*   idready     the future of that acquire() got its result
\*   identified  IDENTIFY was sent
\*   idfailed    _handle_hello ended with queue.Full
\*   closed      disconnect() ran
\*   failed      connect() raised or was cancelled before the websocket
\*               was open
ShardNew(identify_ratelimit, shard_id, shard_count) ==
    [shard_id |-> shard_id, shard_count |-> shard_count,
     identify_ratelimit |-> identify_ratelimit, pc |-> "connecting"]

Manager ==
    [mc |-> max_concurrency, rl |-> identify_ratelimits, lim |-> limiters,
     so |-> shardObjs]

\* Manager._create_shard(current_id); shard_count is len(self.shards)
CreateShard(M, current_id, shard_count) ==
    LET ratelimit_key == current_id % M.mc
        M1 == IF M.rl[ratelimit_key] = 0
              THEN [M EXCEPT !.lim = Append(@, TimePerNew(M.mc, IdentifyPer)),
                             !.rl[ratelimit_key] = Len(M.lim) + 1]
              ELSE M
    IN  [M1 EXCEPT !.so = Append(@, ShardNew(M1.rl[ratelimit_key], current_id,
                                             shard_count))]

\* [self._create_shard(id) for id in ids]
RECURSIVE CreateShards(_, _, _)
CreateShards(M, ids, shard_count) ==
    IF ids = << >> THEN M
    ELSE CreateShards(CreateShard(M, Head(ids), shard_count), Tail(ids),
                      shard_count)

\* list(range(count))
Range(count) == [i \in 1..count |-> i - 1]

\* Shard.disconnect() of shard s, called by the manager: the connection task
\* is cancelled, and with it a _handle_hello suspended in acquire(), which
\* takes its future out of the limiter's queue (its IDENTIFY then meets a
\* websocket that is closing)
Disconnect(M, s) ==
    LET l  == M.so[s].identify_ratelimit
        M1 == IF M.so[s].pc = "idwait"
              THEN [M EXCEPT !.lim[l].pending =
                                SelectSeq(@, LAMBDA f : f # s)]
              ELSE M
    IN  [M1 EXCEPT !.so[s].pc = "closed"]

RECURSIVE DisconnectAll(_, _)
DisconnectAll(M, ss) ==
    IF ss = << >> THEN M
    ELSE DisconnectAll(Disconnect(M, Head(ss)), Tail(ss))

\* "assert self._ws is not None" of Shard.disconnect holds
HasWs(sh) == sh.pc \notin {"connecting", "closed", "failed"}

MCommit(M) ==
    /\ identify_ratelimits' = M.rl
    /\ limiters' = M.lim
    /\ shardObjs' = M.so

MgrInit ==
    /\ max_concurrency = 0
    /\ shards = << >>
    /\ identify_ratelimits = [k \in 0..(MaxConcurrency - 1) |-> 0]
    /\ limiters = << >>
    /\ shardObjs = << >>
    /\ current_shards = << >>
    /\ pending_shards = << >>
    /\ pending_shard_count = None
    /\ rescaling = FALSE
    /\ idAge = [l \in 1..MaxConcurrency |-> << >>]

\* a task that the event loop will run before it waits for the network or
\* the clock
MRunnable ==
    \/ \E s \in 1..Len(shardObjs) : shardObjs[s].pc \in {"hello", "idready"}
    \/ /\ rescaling
       /\ \/ \A i \in 1..Len(pending_shards) :
                shardObjs[pending_shards[i]].pc # "connecting"
          \/ \E i \in 1..Len(pending_shards) :
                shardObjs[pending_shards[i]].pc = "failed"

\* Manager.start() after GET /gateway/bot answered with max_concurrency mc
\* and n shards
Start(mc, n) ==
    /\ max_concurrency = 0
    /\ max_concurrency' = mc
    /\ shards' = Range(n)
    /\ LET M == CreateShards([Manager EXCEPT !.mc = mc], Range(n), n)
       IN  /\ MCommit(M)
           /\ current_shards' = [i \in 1..n |-> Len(shardObjs) + i]
    /\ UNCHANGED <<pending_shards, pending_shard_count, rescaling, idAge>>

\* Manager.rescale(count) up to "await asyncio.gather(*shard_connects)"
Rescale(count) ==
    /\ pending_shard_count = None
    /\ max_concurrency # 0
    /\ Len(shardObjs) + count <= MaxShardObjs
    /\ pending_shard_count' = count
    /\ LET M == CreateShards(Manager, Range(count), Len(shards))
       IN  /\ MCommit(M)
           /\ pending_shards' = [i \in 1..count |-> Len(shardObjs) + i]
    /\ rescaling' = TRUE
    /\ UNCHANGED <<max_concurrency, shards, current_shards, idAge>>

\* Manager.rescale(count) from the return of gather(*shard_connects), every
\* connect() having returned: the finally block, then the replacement of the
\* current shards
RescaleEnd ==
    /\ rescaling
    /\ \A i \in 1..Len(pending_shards) :
          shardObjs[pending_shards[i]].pc \notin {"connecting", "failed"}
    /\ LET M1 == DisconnectAll(Manager, pending_shards)
           connected == SelectSeq(current_shards, LAMBDA s : HasWs(M1.so[s]))
           M2 == DisconnectAll(M1, connected)
       IN  /\ MCommit(M2)
           /\ current_shards' = IF connected = current_shards
                                 THEN << >> ELSE current_shards
    /\ pending_shards' = << >>
    /\ pending_shard_count' = None
    /\ rescaling' = FALSE
    /\ UNCHANGED <<max_concurrency, shards, idAge>>

\* Manager.rescale(count) when gather(*shard_connects) raises: a connect()
\* failed, or the task running rescale() was cancelled (the gather then
\* cancels the connect() calls that still run). The finally block calls
\* disconnect() on every pending shard; one without a websocket fails the
\* assertion of disconnect(), and the error leaves the finally block before
\* the pending count and list are reset.
RescaleAbort(cancelled) ==
    /\ rescaling
    /\ cancelled \/ \E i \in 1..Len(pending_shards) :
                       shardObjs[pending_shards[i]].pc = "failed"
    /\ LET M0 == [Manager EXCEPT !.so =
                     [s \in 1..Len(shardObjs) |->
                        IF /\ cancelled
                           /\ shardObjs[s].pc = "connecting"
                           /\ \E i \in 1..Len(pending_shards) :
                                 pending_shards[i] = s
                        THEN [shardObjs[s] EXCEPT !.pc = "failed"]
                        ELSE shardObjs[s]]]
           open == SelectSeq(pending_shards, LAMBDA s : HasWs(M0.so[s]))
           M1 == DisconnectAll(M0, open)
       IN  /\ MCommit(M1)
           /\ pending_shards' = IF open = pending_shards
                                 THEN << >> ELSE pending_shards
           /\ pending_shard_count' = IF open = pending_shards
                                      THEN None ELSE pending_shard_count
    /\ rescaling' = FALSE
    /\ UNCHANGED <<max_concurrency, shards, current_shards, idAge>>

\* Shard.connect() of shard s raises out of connect_gateway: no websocket
ConnectFail(s) ==
    /\ s \in 1..Len(shardObjs)
    /\ shardObjs[s].pc = "connecting"
    /\ ~MRunnable
    /\ shardObjs' = [shardObjs EXCEPT ![s].pc = "failed"]
    /\ UNCHANGED <<max_concurrency, shards, identify_ratelimits, limiters,
                   current_shards, pending_shards, pending_shard_count,
                   rescaling, idAge>>

\* Shard.connect() of shard s completes: the websocket is open and the
\* connection task is reading it
Connected(s) ==
    /\ s \in 1..Len(shardObjs)
    /\ shardObjs[s].pc = "connecting"
    /\ ~MRunnable
    /\ shardObjs' = [shardObjs EXCEPT ![s].pc = "open"]
    /\ UNCHANGED <<max_concurrency, shards, identify_ratelimits, limiters,
                   current_shards, pending_shards, pending_shard_count,
                   rescaling, idAge>>

\* the gateway's HELLO reaches shard s: _connection_loop dispatches op 10
\* and the dispatcher creates the _handle_hello task
Hello(s) ==
    /\ s \in 1..Len(shardObjs)
    /\ shardObjs[s].pc = "open"
    /\ ~MRunnable
    /\ shardObjs' = [shardObjs EXCEPT ![s].pc = "hello"]
    /\ UNCHANGED <<max_concurrency, shards, identify_ratelimits, limiters,
                   current_shards, pending_shards, pending_shard_count,
                   rescaling, idAge>>

\* Shard._handle_hello of shard s (no session): acquire() on the identify
\* limiter, then identify() unless acquire() suspended or raised
HandleHello(s) ==
    /\ s \in 1..Len(shardObjs)
    /\ shardObjs[s].pc = "hello"
    /\ LET l == shardObjs[s].identify_ratelimit
           a == TimePer_acquire(limiters[l], s)
       IN  /\ limiters' = [limiters EXCEPT ![l] = a.l]
           /\ shardObjs' = [shardObjs EXCEPT ![s].pc =
                               CASE a.out = "pass" -> "identified"
                                 [] a.out = "wait" -> "idwait"
                                 [] a.out = "full" -> "idfailed"]
           /\ idAge' = IF a.out = "pass"
                        THEN [idAge EXCEPT ![l] = Append(@, 0)] ELSE idAge
    /\ UNCHANGED <<max_concurrency, shards, identify_ratelimits,
                   current_shards, pending_shards, pending_shard_count,
                   rescaling>>

\* Shard._handle_hello of shard s resumes after acquire()'s "await future"
\* and sends IDENTIFY
IdentifyResume(s) ==
    /\ s \in 1..Len(shardObjs)
    /\ shardObjs[s].pc = "idready"
    /\ LET l == shardObjs[s].identify_ratelimit
       IN  /\ limiters' = [limiters EXCEPT ![l] = TimePer_take(@)]
           /\ idAge' = [idAge EXCEPT ![l] = Append(@, 0)]
    /\ shardObjs' = [shardObjs EXCEPT ![s].pc = "identified"]
    /\ UNCHANGED <<max_concurrency, shards, identify_ratelimits,
                   current_shards, pending_shards, pending_shard_count,
                   rescaling>>

\* the reset timer of identify limiter l fires
LimiterReset(l) ==
    /\ l \in 1..Len(limiters)
    /\ \E i \in 1..Len(limiters[l].timers) :
          /\ limiters[l].timers[i] = 0
          /\ limiters' = [limiters EXCEPT ![l] = TimePer_reset(@, i)]
    /\ shardObjs' = [s \in 1..Len(shardObjs) |->
                       IF \E j \in 1..Len(limiters[l].pending) :
                             limiters[l].pending[j] = s
                       THEN [shardObjs[s] EXCEPT !.pc = "idready"]
                       ELSE shardObjs[s]]
    /\ UNCHANGED <<max_concurrency, shards, identify_ratelimits,
                   current_shards, pending_shards, pending_shard_count,
                   rescaling, idAge>>

\* one second passes
MgrTick ==
    /\ ~MRunnable
    /\ \A l \in 1..Len(limiters) : ~TimerDue(limiters[l].timers)
    /\ \E l \in 1..Len(limiters) :
          limiters[l].timers # << >> \/ idAge[l] # << >>
    /\ limiters' = [l \in 1..Len(limiters) |->
                      [limiters[l] EXCEPT !.timers = DecAll(@)]]
    /\ idAge' = [l \in 1..MaxConcurrency |-> Aged(idAge[l], IdentifyPer)]
    /\ UNCHANGED <<max_concurrency, shards, identify_ratelimits, shardObjs,
                   current_shards, pending_shards, pending_shard_count,
                   rescaling>>

\* the shards of ss that come before the first one without a websocket
RECURSIVE OpenPrefix(_, _)
OpenPrefix(M, ss) ==
    IF ss = << >> \/ ~HasWs(M.so[Head(ss)]) THEN << >>
    ELSE <<Head(ss)>> \o OpenPrefix(M, Tail(ss))

\* Manager.close(), called while no rescale() is under way: the shards are
\* disconnected one after the other, the current ones first; the assert of
\* the first disconnect() that meets a shard without websocket ends close()
\* before the lists are cleared
Close ==
    /\ ~rescaling
    /\ LET all  == current_shards \o pending_shards
           open == OpenPrefix(Manager, all)
       IN  /\ MCommit(DisconnectAll(Manager, open))
           /\ current_shards' = IF open = all THEN << >> ELSE current_shards
           /\ pending_shards' = IF open = all THEN << >> ELSE pending_shards
    /\ UNCHANGED <<max_concurrency, shards, pending_shard_count, rescaling,
                   idAge>>

\* -------------------------------------------------------- gateway/shard.py

VARIABLES
    shard,      \* the fields of one Shard
    wsObjs,     \* the websockets its connect() asked connect_gateway for
    taskObjs,   \* the asyncio tasks the shard created
    gseq        \* the sequence number of the gateway's last DISPATCH

shardVars == <<shard, wsObjs, taskObjs, gseq>>

\* None of a string field
NoStr == "None"

\* Shard.__init__; ws and the task fields are indices, 0 for None
ShardFields(should_reconnect) ==
    [ws |-> 0, resume_url |-> NoStr, session_id |-> NoStr, sequence |-> None,
     heartbeat_task |-> 0, heartbeat_ack_received |-> 0,
     connection_task |-> 0, should_reconnect |-> should_reconnect]

\* a websocket: st is connecting, open or closed; close_code is the code the
\* gateway closed it with and close_sent the code the shard closed it with
\* (0 for none). The other fields record the traffic: HELLOs received, whether
\* RECONNECT was received, whether IDENTIFY was sent, the last RESUME sent,
\* and the heartbeats sent that no HEARTBEAT_ACK has answered yet.
WsNew(url) ==
    [url |-> url, st |-> "connecting", close_code |-> 0, close_sent |-> 0,
     hello |-> 0, reconnect |-> FALSE, identify |-> FALSE, resume |-> << >>,
     hb_out |-> 0]

\* a task: kind is connection (_connection_loop) or heartbeat
\* (_heartbeat_loop); pc is where it is suspended, "done" once it ended, and
\* exc the exception it ended with
TaskNew(kind, ws, pc) == [kind |-> kind, ws |-> ws, pc |-> pc, exc |-> ""]

ShardWorld == [sh |-> shard, ws |-> wsObjs, ta |-> taskObjs]

LiveTask(tk) == tk.pc # "done"

\* a task ends with exception exc ("" for a normal return); cancel() of a
\* task that ended, or of no task, changes nothing
EndTask(ta, t, exc) ==
    IF t = 0 \/ ~LiveTask(ta[t]) THEN ta
    ELSE [ta EXCEPT ![t] = [@ EXCEPT !.pc = "done", !.exc = exc]]

\* Shard.send(payload) of an op 1, 2 or 6 payload on the current websocket
Shard_send(S, op, d) ==
    CASE op = 1 -> [S EXCEPT !.ws[S.sh.ws].hb_out = @ + 1]
      [] op = 2 -> [S EXCEPT !.ws[S.sh.ws].identify = TRUE]
      [] op = 6 -> [S EXCEPT !.ws[S.sh.ws].resume = <<d>>]

\* Shard._process_raw_msg: the sequence is taken from the frame's "s"
Shard_process_raw_msg(S, f) == [S EXCEPT !.sh.sequence = f.s]

\* Shard.connect() up to "await connect_gateway": the URL is chosen
Shard_connect(S) ==
    [S EXCEPT !.ws = Append(@, WsNew(IF /\ S.sh.session_id # NoStr
                                        /\ S.sh.resume_url # NoStr
                                     THEN S.sh.resume_url ELSE "gateway"))]

\* Shard.disconnect(keep_session) run by task self (0: a caller that is not
\* one of the shard's tasks). Cancelling the connection task also cancels
\* the task that runs disconnect() when that is the connection task itself
\* or a handler the connection task awaits; the CancelledError is raised at
\* the next await that suspends: `stop` is "close" when that is ws.close()
\* and "dispatch" when it is the dispatch of "disconnect".
Shard_disconnect(S, self, keep_session, stop) ==
    LET sh == S.sh
        cancelled == self # 0 /\ sh.connection_task = self
        at  == IF cancelled THEN stop ELSE ""
        ta1 == EndTask(S.ta, sh.connection_task, "CancelledError")
        ta2 == EndTask(ta1, sh.heartbeat_task, "CancelledError")
        ta3 == EndTask(ta2, IF sh.heartbeat_ack_received # 0
                               /\ ta2[sh.heartbeat_ack_received].pc = "wait"
                            THEN sh.heartbeat_ack_received ELSE 0,
                       "CancelledError")
        sh1 == [sh EXCEPT !.connection_task = 0, !.heartbeat_task = 0,
                          !.heartbeat_ack_received = 0]
        ws1 == IF S.ws[sh.ws].st = "open"
               THEN [S.ws EXCEPT ![sh.ws].st = "closed",
                                 ![sh.ws].close_sent =
                                     IF keep_session THEN 999 ELSE 1000]
               ELSE S.ws
        sh2 == IF at = "close" THEN sh1
               ELSE IF keep_session THEN [sh1 EXCEPT !.ws = 0]
               ELSE [sh1 EXCEPT !.ws = 0, !.resume_url = NoStr,
                                !.session_id = NoStr, !.sequence = None]
    IN  [S |-> [sh |-> sh2, ws |-> ws1, ta |-> ta3], cancelled |-> cancelled]

\* the session is kept on this close code
KeepSession(sh, close_code) ==
    CASE close_code \in {4000, 4008} -> TRUE
      [] close_code \in {4001, 4002, 4005} -> sh.should_reconnect
      [] OTHER -> FALSE

\* connect() follows the disconnect() on this close code
Reconnects(sh, close_code) ==
    CASE close_code < 2000 -> TRUE
      [] close_code \in {4000, 4003, 4007, 4008, 4009} -> TRUE
      [] close_code \in {4001, 4002, 4005} -> sh.should_reconnect
      [] OTHER -> FALSE

\* the error raised after the disconnect() on this close code
Raised(close_code) ==
    CASE close_code = 4004 -> "AuthenticationError"
      [] close_code \in {4010, 4011} -> "ShardingError"
      [] close_code \in {4013, 4014} -> "IntentError"
      [] close_code \in {4001, 4002, 4005} -> ""
      [] OTHER -> "GatewayException"

\* Shard._handle_close_code run by the connection task self; the websocket
\* is closed already, so ws.close() returns without suspending
Shard_handle_close_code(S, self, close_code) ==
    LET D == Shard_disconnect(S, self, KeepSession(S.sh, close_code),
                              "dispatch")
    IN  IF D.cancelled THEN D.S
        ELSE IF Reconnects(S.sh, close_code)
        THEN [Shard_connect(D.S) EXCEPT !.ta = EndTask(@, self, "")]
        ELSE [D.S EXCEPT !.ta = EndTask(@, self, Raised(close_code))]

\* Shard.resume()
Shard_resume(S) ==
    IF S.sh.session_id = NoStr /\ S.sh.sequence = None
    THEN [S |-> S, exc |-> "RuntimeError"]
    ELSE [S |-> Shard_send(S, 6, [session_id |-> S.sh.session_id,
                                  seq |-> S.sh.sequence]),
          exc |-> ""]

\* Shard.identify()
Shard_identify(S) == Shard_send(S, 2, << >>)

\* Shard._handle_hello (the identify limiter lets the shard pass)
Shard_handle_hello(S) ==
    LET S1 == [S EXCEPT !.ta = Append(@, TaskNew("heartbeat", 0, "sleep0")),
                        !.sh.heartbeat_task = Len(S.ta) + 1]
    IN  IF S1.sh.session_id # NoStr THEN Shard_resume(S1).S
        ELSE Shard_identify(S1)

\* Shard._handle_dispatch
Shard_handle_dispatch(S, f) ==
    IF f.t = "READY"
    THEN [S EXCEPT !.sh.resume_url = "R", !.sh.session_id = "S"]
    ELSE S

\* Shard._handle_reconnect, a task the connection task self awaits
Shard_handle_reconnect(S, self, stop) ==
    LET D == Shard_disconnect(S, self, TRUE, stop)
    IN  IF D.cancelled THEN D.S ELSE Shard_connect(D.S)

\* Shard._handle_invalid_session
Shard_handle_invalid_session(S, self, f, stop) ==
    IF S.sh.should_reconnect
    THEN LET D == Shard_disconnect(S, self, f.d, stop)
         IN  IF D.cancelled THEN D.S ELSE Shard_connect(D.S)
    ELSE Shard_disconnect(S, self, FALSE, stop).S

\* Shard._handle_heartbeat_ack: a future object is always true, so
\* set_result is called on every future the field holds; on one that is
\* done it raises InvalidStateError, which the dispatcher's gather hands to
\* the connection task self
Shard_handle_heartbeat_ack(S, self) ==
    LET fut == S.sh.heartbeat_ack_received
    IN  IF fut = 0 THEN S
        ELSE IF S.ta[fut].pc = "wait"
        THEN [S EXCEPT !.ta[fut].pc = "sleep"]
        ELSE [S EXCEPT !.ta = EndTask(@, self, "InvalidStateError")]

\* the listener RawDispatcher.dispatch runs for the frame's op
Shard_dispatch(S, self, f, stop) ==
    CASE f.op = 0  -> Shard_handle_dispatch(S, f)
      [] f.op = 7  -> Shard_handle_reconnect(S, self, stop)
      [] f.op = 9  -> Shard_handle_invalid_session(S, self, f, stop)
      [] f.op = 10 -> Shard_handle_hello(S)
      [] f.op = 11 -> Shard_handle_heartbeat_ack(S, self)

Frame(op, s, t, d) == [op |-> op, s |-> s, t |-> t, d |-> d]

\* every frame of the model
AllFrames ==
    {Frame(op, None, NoStr, d) : op \in {7, 9, 10, 11}, d \in BOOLEAN}
    \cup {Frame(0, s, t, FALSE) : s \in 1..MaxSeq,
                                  t \in {"READY", "MESSAGE_CREATE"}}

\* the close codes the gateway closes a websocket with; 0 is no code
CloseCodes == {0, 1000, 4000, 4005, 4013}

\* the tasks one shard creates: a connection task for every websocket and a
\* heartbeat task for every HELLO
MaxTaskObjs == MaxWs * (1 + MaxHello)

\* the frames the gateway may send next on websocket c, HELLO at most hellos
\* times: DISPATCH carries the next sequence number, READY answers an
\* IDENTIFY, the other frames carry no sequence number
Frames(c, hellos) ==
    {Frame(7, None, NoStr, FALSE), Frame(11, None, NoStr, FALSE)}
    \cup {Frame(9, None, NoStr, d) : d \in BOOLEAN}
    \cup (IF wsObjs[c].hello < hellos
          THEN {Frame(10, None, NoStr, FALSE)} ELSE {})
    \cup (IF gseq < MaxSeq /\ wsObjs[c].identify
          THEN {Frame(0, gseq + 1, "READY", FALSE)} ELSE {})
    \cup (IF gseq < MaxSeq /\ (wsObjs[c].identify \/ wsObjs[c].resume # << >>)
          THEN {Frame(0, gseq + 1, "MESSAGE_CREATE", FALSE)} ELSE {})

\* the connection task that reads websocket c, 0 if there is none
Reader(c) ==
    IF \E t \in 1..Len(taskObjs) :
          taskObjs[t] = TaskNew("connection", c, "reading")
    THEN CHOOSE t \in 1..Len(taskObjs) :
            taskObjs[t] = TaskNew("connection", c, "reading")
    ELSE 0

ShardCommit(S) ==
    /\ shard' = S.sh
    /\ wsObjs' = S.ws
    /\ taskObjs' = S.ta

\* no shard is in use
ShardIdle ==
    /\ shard = ShardFields(TRUE)
    /\ wsObjs = << >>
    /\ taskObjs = << >>
    /\ gseq = 0

ShardInit ==
    /\ shard \in {ShardFields(r) : r \in BOOLEAN}
    /\ wsObjs = << >>
    /\ taskObjs = << >>
    /\ gseq = 0

\* the application calls connect() on a shard that has no connection task
\* and no connect() under way; the shard opens at most `sockets` websockets
ConnectCall(sockets) ==
    /\ Len(wsObjs) < sockets
    /\ \A c \in 1..Len(wsObjs) : wsObjs[c].st # "connecting"
    /\ \A t \in 1..Len(taskObjs) :
          taskObjs[t].kind = "connection" => ~LiveTask(taskObjs[t])
    /\ ShardCommit(Shard_connect(ShardWorld))
    /\ UNCHANGED gseq

\* Shard.connect() from the return of connect_gateway: the websocket is
\* stored and the connection task created
ConnectReturn(c) ==
    /\ c \in 1..Len(wsObjs)
    /\ wsObjs[c].st = "connecting"
    /\ shard' = [shard EXCEPT !.ws = c,
                              !.connection_task = Len(taskObjs) + 1]
    /\ wsObjs' = [wsObjs EXCEPT ![c].st = "open"]
    /\ taskObjs' = Append(taskObjs, TaskNew("connection", c, "reading"))
    /\ UNCHANGED gseq

\* the application (or the manager) calls disconnect(keep_session)
DisconnectCall(keep_session) ==
    /\ shard.ws # 0
    /\ ShardCommit(Shard_disconnect(ShardWorld, 0, keep_session, "").S)
    /\ UNCHANGED gseq

\* the application calls resume() on a connected shard
ResumeCall ==
    /\ shard.ws # 0
    /\ wsObjs[shard.ws].st = "open"
    /\ ShardCommit(Shard_resume(ShardWorld).S)
    /\ UNCHANGED gseq

\* Shard._connection_loop receives frame f on websocket c and awaits the
\* dispatch of its op
ConnectionLoop(c, f, hellos) ==
    /\ c \in 1..Len(wsObjs)
    /\ wsObjs[c].st = "open"
    /\ Reader(c) # 0
    /\ f \in Frames(c, hellos)
    /\ LET S0 == [ShardWorld EXCEPT
                    !.ws[c].hello = IF f.op = 10 THEN @ + 1 ELSE @,
                    !.ws[c].reconnect = @ \/ f.op = 7,
                    !.ws[c].hb_out = IF f.op = 11 THEN Dec(@) ELSE @]
           S1 == Shard_process_raw_msg(S0, f)
       IN  \E stop \in {"close", "dispatch"} :
              ShardCommit(Shard_dispatch(S1, Reader(c), f, stop))
    /\ gseq' = IF f.op = 0 THEN f.s ELSE gseq

\* the gateway closes websocket c with close_code (0: without a code):
\* _connection_loop leaves its loop and handles the code
ConnectionClosed(c, close_code) ==
    /\ c \in 1..Len(wsObjs)
    /\ wsObjs[c].st = "open"
    /\ Reader(c) # 0
    /\ LET S0 == [ShardWorld EXCEPT !.ws[c].st = "closed",
                                    !.ws[c].close_code = close_code]
       IN  ShardCommit(IF close_code = 0
                       THEN [S0 EXCEPT !.ta = EndTask(@, Reader(c), "")]
                       ELSE Shard_handle_close_code(S0, Reader(c),
                                                    close_code))
    /\ UNCHANGED gseq

\* Shard._heartbeat_loop of task t when its sleep ends: the loop test, the
\* heartbeat and the new future
HeartbeatLoop(t) ==
    /\ t \in 1..Len(taskObjs)
    /\ taskObjs[t].kind = "heartbeat"
    /\ taskObjs[t].pc \in {"sleep0", "sleep"}
    /\ ShardCommit(
          IF shard.ws = 0
          THEN [ShardWorld EXCEPT !.ta = EndTask(@, t, "AttributeError")]
          ELSE IF wsObjs[shard.ws].st # "open"
          THEN [ShardWorld EXCEPT !.ta = EndTask(@, t, "")]
          ELSE [Shard_send(ShardWorld, 1, shard.sequence) EXCEPT
                   !.sh.heartbeat_ack_received = t,
                   !.ta[t].pc = "wait"])
    /\ UNCHANGED gseq

\* ------------------------------- Shard.disconnect called by application tasks

VARIABLES
    calls       \* per calling task: where its disconnect() call stands

callVars == <<calls>>

Callers == 1..MaxCallers

\* a call that has not been made: pc becomes "closing" (suspended in
\* ws.close()), "dispatching" (suspended in the dispatch of "disconnect"),
\* "returned" or "raised"; before holds session_id, resume_url and sequence
\* and tasks the read task, heartbeat task and ACK future at the call;
\* closed tells that this call closed the socket, dispatched that it
\* dispatched "disconnect" and overlap that another call was suspended in
\* ws.close() when this one was made
CallNew ==
    [pc |-> "idle", keep_session |-> FALSE, exc |-> "", before |-> << >>,
     tasks |-> {}, closed |-> FALSE, dispatched |-> FALSE,
     overlap |-> FALSE]

CallsIdle == calls = [k \in Callers |-> CallNew]

\* disconnect(): the three cancellations
Shard_disconnect_cancel(S) ==
    LET sh == S.sh
        ta1 == EndTask(S.ta, sh.connection_task, "CancelledError")
        ta2 == EndTask(ta1, sh.heartbeat_task, "CancelledError")
        ta3 == EndTask(ta2, IF sh.heartbeat_ack_received # 0
                               /\ ta2[sh.heartbeat_ack_received].pc = "wait"
                            THEN sh.heartbeat_ack_received ELSE 0,
                       "CancelledError")
    IN  [S EXCEPT !.ta = ta3,
                  !.sh = [sh EXCEPT !.connection_task = 0,
                                    !.heartbeat_task = 0,
                                    !.heartbeat_ack_received = 0]]

\* disconnect(): ws.close(code=999) or ws.close() of an open websocket
Shard_disconnect_close(S, keep_session) ==
    [S EXCEPT !.ws[S.sh.ws].st = "closed",
              !.ws[S.sh.ws].close_sent = IF keep_session THEN 999 ELSE 1000]

\* a disconnect() that keeps the session whatever keep_session is
Shard_disconnect_keep(S, keep_session) == [S EXCEPT !.sh.ws = 0]

\* disconnect() after ws.close(), up to the dispatch of "disconnect"
Shard_disconnect_finish(S, keep_session) ==
    IF keep_session THEN [S EXCEPT !.sh.ws = 0]
    ELSE [S EXCEPT !.sh.ws = 0, !.sh.resume_url = NoStr,
                   !.sh.session_id = NoStr, !.sh.sequence = None]

\* task k calls disconnect(keep_session). Without a websocket the assert
\* fails (AttributeError on None where asserts are compiled out). ws.close()
\* suspends only on a websocket that is still open; on a closed one it
\* returns at once and the call runs on to its dispatch.
DisconnectBegin(k, keep_session) ==
    /\ calls[k].pc = "idle"
    /\ \A j \in Callers : j < k => calls[j].pc # "idle"
    /\ LET call == [CallNew EXCEPT
                      !.keep_session = keep_session,
                      !.before = <<shard.session_id, shard.resume_url,
                                   shard.sequence>>,
                      !.tasks = {shard.connection_task, shard.heartbeat_task,
                                 shard.heartbeat_ack_received} \ {0},
                      !.overlap = \E j \in Callers :
                                     calls[j].pc = "closing"]
           S1 == Shard_disconnect_cancel(ShardWorld)
       IN  IF shard.ws = 0
           THEN /\ \E exc \in {"AssertionError", "AttributeError"} :
                      calls' = [calls EXCEPT ![k] =
                                  [call EXCEPT !.pc = "raised", !.exc = exc]]
                /\ UNCHANGED <<shard, wsObjs, taskObjs>>
           ELSE IF wsObjs[shard.ws].st = "open"
           THEN /\ ShardCommit(Shard_disconnect_close(S1, keep_session))
                /\ calls' = [calls EXCEPT ![k] =
                               [call EXCEPT !.pc = "closing",
                                            !.closed = TRUE]]
           ELSE /\ ShardCommit(Shard_disconnect_finish(S1, keep_session))
                /\ calls' = [calls EXCEPT ![k] =
                               [call EXCEPT !.pc = "dispatching",
                                            !.dispatched = TRUE]]
    /\ UNCHANGED gseq

\* ws.close() returns to task k
DisconnectClosed(k) ==
    /\ calls[k].pc = "closing"
    /\ ShardCommit(Shard_disconnect_finish(ShardWorld, calls[k].keep_session))
    /\ calls' = [calls EXCEPT ![k].pc = "dispatching",
                              ![k].dispatched = TRUE]
    /\ UNCHANGED gseq

\* the handlers of the "disconnect" event have run: disconnect() returns
DisconnectReturn(k) ==
    /\ calls[k].pc = "dispatching"
    /\ calls' = [calls EXCEPT ![k].pc = "returned"]
    /\ UNCHANGED shardVars

\* ------------------------------------------------- utils/dispatcher/raw.py

VARIABLES
    rd,         \* one RawDispatcher
    futs,       \* the futures its wait_for() calls created
    ret         \* what its last dispatch() returned

rdVars == <<rd, futs, ret>>

\* the events (keys) and the metadata (payloads) of the model
Keys == {"k1", "k2"}
Payloads == {"p1", "p2"}

\* RawDispatcher.__init__: the number of listeners under every event, the
\* number of event handlers, and under every event the waiters, each the
\* index of its future
RawDispatcherNew ==
    [listeners |-> [k \in Keys |-> 0], event_handlers |-> 0,
     waiters |-> [k \in Keys |-> << >>]]

\* the (check, future) pair of wait_for(event, check): the check holds for
\* the metadata `check`; st is pending, cancelled or result, evals the
\* number of times the check was called
FutNew(event, check) ==
    [event |-> event, check |-> check, st |-> "pending", result |-> "",
     evals |-> 0]

\* RawDispatcher.add_listener
RawDispatcher_add_listener(D, event) ==
    [D EXCEPT !.listeners[event] = @ + 1]

\* RawDispatcher.add_event_handler
RawDispatcher_add_event_handler(D) == [D EXCEPT !.event_handlers = @ + 1]

\* RawDispatcher.remove_event_handler of the handler the list holds (every
\* entry of the list is that handler); ValueError when the list is empty
RawDispatcher_remove_event_handler(D) ==
    IF D.event_handlers = 0 THEN D
    ELSE [D EXCEPT !.event_handlers = @ + 1]

\* RawDispatcher.wait_for up to asyncio.wait_for
RawDispatcher_wait_for(D, F, event, check) ==
    [D |-> [D EXCEPT !.waiters[event] = Append(@, Len(F) + 1)],
     F |-> Append(F, FutNew(event, check))]

\* wait_fors.pop(i) after the check was called
WaiterChecked(fut, event, metadata) ==
    IF fut.check = metadata
    THEN [fut EXCEPT !.evals = @ + 1, !.st = "result", !.result = event]
    ELSE [fut EXCEPT !.evals = @ + 1]

\* "for i, (check, future) in enumerate(wait_fors)": the list iterator is at
\* position i (counted from 1) of the list that the loop body shortens
RECURSIVE WaitersLoop(_, _, _, _, _)
WaitersLoop(wait_fors, i, F, event, metadata) ==
    IF i > Len(wait_fors) THEN [wait_fors |-> wait_fors, F |-> F]
    ELSE LET w == wait_fors[i]
         IN  WaitersLoop(RemoveAt(wait_fors, i), i + 1,
                         IF F[w].st = "cancelled" THEN F
                         ELSE [F EXCEPT ![w] =
                                  WaiterChecked(@, event, metadata)],
                         event, metadata)

\* RawDispatcher.dispatch(event, metadata); ret is None, or the future of
\* gather_optionally: "gather" with tasks, "completed" without
RawDispatcher_dispatch(D, F, event, metadata) ==
    IF /\ D.listeners[event] = 0
       /\ D.event_handlers = 0
       /\ D.waiters[event] = << >>
    THEN [D |-> D, F |-> F, ret |-> "None"]
    ELSE LET L == WaitersLoop(D.waiters[event], 1, F, event, metadata)
         IN  [D |-> [D EXCEPT !.waiters[event] = L.wait_fors],
              F |-> L.F,
              ret |-> IF D.listeners[event] + D.event_handlers > 0
                      THEN "gather" ELSE "completed"]

RawIdle ==
    /\ rd = RawDispatcherNew
    /\ futs = << >>
    /\ ret = ""

RDAddListener(event) ==
    /\ rd.listeners[event] < MaxListeners
    /\ rd' = RawDispatcher_add_listener(rd, event)
    /\ UNCHANGED <<futs, ret>>

RDAddHandler ==
    /\ rd.event_handlers < 1
    /\ rd' = RawDispatcher_add_event_handler(rd)
    /\ UNCHANGED <<futs, ret>>

RDRemoveHandler ==
    /\ rd.event_handlers < MaxHandlers
    /\ rd' = RawDispatcher_remove_event_handler(rd)
    /\ UNCHANGED <<futs, ret>>

\* a task calls wait_for(event, check=..., timeout=...) and awaits it
RDWaitFor(event, check) ==
    /\ Len(futs) < MaxWaiters
    /\ LET R == RawDispatcher_wait_for(rd, futs, event, check)
       IN  rd' = R.D /\ futs' = R.F
    /\ UNCHANGED ret

\* the timeout of asyncio.wait_for(future, timeout) ends: the future is
\* cancelled and the waiting task gets TimeoutError
RDTimeout(w) ==
    /\ w \in 1..Len(futs)
    /\ futs[w].st = "pending"
    /\ futs' = [futs EXCEPT ![w].st = "cancelled"]
    /\ UNCHANGED <<rd, ret>>

RDDispatch(event, metadata) ==
    LET R == RawDispatcher_dispatch(rd, futs, event, metadata)
    IN  rd' = R.D /\ futs' = R.F /\ ret' = R.ret

\* ----------------------- gateway/shard.py: DISPATCH frames and their listeners

VARIABLES
    loop,       \* the connection task: its place in _connection_loop and the
                \*   number of DISPATCH frames it has read
    ltasks      \* the tasks the two dispatchers created, in creation order

dlVars == <<loop, ltasks>>

\* a task of RawDispatcher.dispatch for frame number `frame`: kind is
\* "handler" for _handle_dispatch (the op listener) or "listener" for a
\* by-name listener; pc is created (not started yet), running (suspended
\* inside the listener), awaiting (_handle_dispatch awaiting the by-name
\* dispatch), done or raised
LTaskNew(frame, kind) == [frame |-> frame, kind |-> kind, pc |-> "created"]

DeliverIdle ==
    /\ loop = [pc |-> "reading", frame |-> 0]
    /\ ltasks = << >>

\* _connection_loop without the await in front of op_dispatcher.dispatch
Loop_unawaited(lp) == lp

\* "await self.op_dispatcher.dispatch(...)" of _connection_loop
Loop_await(lp) == [lp EXCEPT !.pc = "awaiting"]

\* loop.create_task(listener(metadata)) for each by-name listener
RECURSIVE CreateListeners(_, _, _)
CreateListeners(ta, frame, n) ==
    IF n = 0 THEN ta
    ELSE CreateListeners(Append(ta, LTaskNew(frame, "listener")), frame, n - 1)

\* the event loop runs its ready tasks in the order of their creation
FirstCreated(t) ==
    /\ t \in 1..Len(ltasks)
    /\ ltasks[t].pc = "created"
    /\ \A u \in 1..(t - 1) : ltasks[u].pc # "created"

\* _connection_loop reads the next DISPATCH frame and dispatches op 0: the
\* task of _handle_dispatch is created
DLRead ==
    /\ loop.pc = "reading"
    /\ loop.frame < MaxFrames
    /\ loop' = Loop_await([loop EXCEPT !.frame = @ + 1])
    /\ ltasks' = Append(ltasks, LTaskNew(loop.frame + 1, "handler"))

\* task t starts: _handle_dispatch dispatches the event by name, creating the
\* tasks of its listeners, and awaits them; a listener runs up to its first
\* suspension
DLStart(t) ==
    /\ FirstCreated(t)
    /\ ltasks' = IF ltasks[t].kind = "handler"
                 THEN CreateListeners([ltasks EXCEPT ![t].pc = "awaiting"],
                                      ltasks[t].frame, EventListeners)
                 ELSE [ltasks EXCEPT ![t].pc = "running"]
    /\ UNCHANGED loop

\* the _handle_dispatch task of a frame
HandlerOf(frame) ==
    CHOOSE h \in 1..Len(ltasks) :
       ltasks[h].kind = "handler" /\ ltasks[h].frame = frame

\* listener task t ends. An exception goes through both gathers to the
\* connection task, which ends with it, the other listeners still running.
\* When the last listener of the frame has returned, _handle_dispatch
\* returns and the connection task goes on to read.
DLFinish(t, raises) ==
    /\ t \in 1..Len(ltasks)
    /\ ltasks[t].kind = "listener"
    /\ ltasks[t].pc = "running"
    /\ LET frame == ltasks[t].frame
           h     == HandlerOf(frame)
           last  == \A u \in 1..Len(ltasks) :
                       (u # t /\ ltasks[u].kind = "listener"
                              /\ ltasks[u].frame = frame)
                          => ltasks[u].pc = "done"
           gathered == ltasks[h].pc = "awaiting"
       IN  IF raises
           THEN /\ ltasks' = [ltasks EXCEPT
                                ![t].pc = "raised",
                                ![h].pc = IF gathered THEN "raised" ELSE @]
                /\ loop' = IF gathered /\ loop.frame = frame
                           THEN [loop EXCEPT !.pc = "done"] ELSE loop
           ELSE /\ ltasks' = [ltasks EXCEPT
                                ![t].pc = "done",
                                ![h].pc = IF gathered /\ last
                                          THEN "done" ELSE @]
                /\ loop' = IF gathered /\ last /\ loop.pc = "awaiting"
                              /\ loop.frame = frame
                           THEN [loop EXCEPT !.pc = "reading"] ELSE loop

\* the tasks the dispatchers create for MaxFrames frames
MaxLTasks == MaxFrames * (1 + EventListeners)

\* ----------------------------------------------- utils/dispatcher/typed.py

VARIABLES
    td,         \* one TypedDispatcher: its listeners, each the event class it
                \*   was added under
    ttasks,     \* the _run_listener tasks its dispatches created
    xlog        \* the ExceptionEvents _run_listener dispatched

tdVars == <<td, ttasks, xlog>>

\* the event classes: an application event, ExceptionEvent, and the base
\* class Event that both dispatch as well
EventClasses == {"E", "ExceptionEvent", "Event"}

\* Event.dispatches() of an instance of cls: the classes of its MRO that are
\* subclasses of Event
Dispatches(cls) == <<cls, "Event">>

\* an event: the n-th instance of E that was dispatched, or the
\* ExceptionEvent(exception, failed_event, failed_listener); the exception is
\* named by the task that raised it and the failed event by its number
EventE(n) ==
    [cls |-> "E", n |-> n, exception |-> 0, failed_event |-> 0,
     failed_listener |-> 0]
ExceptionEvent(exception, failed_event, failed_listener) ==
    [cls |-> "ExceptionEvent", n |-> 0, exception |-> exception,
     failed_event |-> failed_event, failed_listener |-> failed_listener]

\* asyncio.create_task(self._run_listener(listener, event)); pc is created,
\* done (the listener returned), raised (it raised) or cancelled
TTaskNew(listener, event) ==
    [listener |-> listener, event |-> event, pc |-> "created"]

\* the listeners added under cls, in the order they were added
ListenersUnder(D, cls) ==
    SelectSeq([l \in 1..Len(D) |-> l], LAMBDA l : D[l] = cls)

\* TypedDispatcher.dispatch(event): a task for every listener under every
\* class the event dispatches
TypedDispatcher_dispatch(D, T, event) ==
    LET ls == ListenersUnder(D, Dispatches(event.cls)[1])
              \o ListenersUnder(D, Dispatches(event.cls)[2])
    IN  T \o [i \in 1..Len(ls) |-> TTaskNew(ls[i], event)]

\* a _run_listener that reports a failure whatever the event is
TypedDispatcher_report_always(D, T, X, t, outcome) ==
    IF outcome # "raised" THEN [T |-> T, X |-> X]
    ELSE LET exc_event == ExceptionEvent(t, T[t].event.n, T[t].listener)
         IN  [T |-> TypedDispatcher_dispatch(D, T, exc_event),
              X |-> Append(X, exc_event)]

\* TypedDispatcher._run_listener of task t after its listener ended with
\* outcome: the exception of a listener of an ExceptionEvent is logged, any
\* other one is dispatched as an ExceptionEvent
TypedDispatcher_run_listener(D, T, X, t, outcome) ==
    IF outcome # "raised" \/ T[t].event.cls = "ExceptionEvent"
    THEN [T |-> T, X |-> X]
    ELSE LET exc_event == ExceptionEvent(t, T[t].event.n, T[t].listener)
         IN  [T |-> TypedDispatcher_dispatch(D, T, exc_event),
              X |-> Append(X, exc_event)]

TypedIdle ==
    /\ td = << >>
    /\ ttasks = << >>
    /\ xlog = << >>

\* add_listener(listener, cls) of a new listener, before the first dispatch
TDAddListener(cls) ==
    /\ Len(td) < MaxTListeners
    /\ ttasks = << >>
    /\ td' = Append(td, cls)
    /\ UNCHANGED <<ttasks, xlog>>

\* the tasks of the listeners of application events
ETasks(T) == {t \in 1..Len(T) : T[t].event.cls = "E"}

\* the listeners an E reaches
EListeners(D) == ListenersUnder(D, "E") \o ListenersUnder(D, "Event")

\* the application dispatches the next E
TDDispatch ==
    /\ EListeners(td) # << >>
    /\ Cardinality(ETasks(ttasks)) < MaxTDispatches * Len(EListeners(td))
    /\ ttasks' = TypedDispatcher_dispatch(
                     td, ttasks,
                     EventE(Cardinality(ETasks(ttasks))
                               \div Len(EListeners(td)) + 1))
    /\ UNCHANGED <<td, xlog>>

\* the listener of task t returns, raises or is cancelled
TDRunListener(t, outcome) ==
    /\ t \in 1..Len(ttasks)
    /\ ttasks[t].pc = "created"
    /\ LET T1 == [ttasks EXCEPT ![t].pc = outcome]
           R  == TypedDispatcher_run_listener(td, T1, xlog, t, outcome)
       IN  ttasks' = R.T /\ xlog' = R.X
    /\ UNCHANGED td

\* the tasks of MaxTDispatches events: one for every listener, and for every
\* one of these that raises one more for every listener
MaxTTasks == MaxTDispatches * MaxTListeners * (1 + MaxTListeners)

vars == <<httpVars, tpVars, mgrVars, shardVars, callVars, rdVars, dlVars,
          tdVars>>

\* Two concurrent calls, every route and hash.
Init ==
    /\ HTTPInit
    /\ TPIdle
    /\ MgrInit
    /\ ShardIdle
    /\ CallsIdle
    /\ RawIdle /\ DeliverIdle /\ TypedIdle
    /\ cfg = [callers |-> {1, 2}, locals |-> LocalKeys, hashes |-> Hashes,
              statuses |-> {200, 429, 500}, limit |-> MaxLimit,
              failures |-> MaxFailures,
              args |-> {PlainArgs}]

\* Three concurrent calls on one route.
InitGate ==
    /\ HTTPInit
    /\ TPIdle
    /\ MgrInit
    /\ ShardIdle
    /\ CallsIdle
    /\ RawIdle /\ DeliverIdle /\ TypedIdle
    /\ cfg = [callers |-> {1, 2, 3}, locals |-> {"/a"}, hashes |-> {"h1"},
              statuses |-> {200, 429, 500}, limit |-> 1,
              failures |-> MaxFailures,
              args |-> {PlainArgs}]

\* One call that the server may fail on every attempt.
InitRetry ==
    /\ HTTPInit
    /\ TPIdle
    /\ MgrInit
    /\ ShardIdle
    /\ CallsIdle
    /\ RawIdle /\ DeliverIdle /\ TypedIdle
    /\ cfg = [callers |-> {1}, locals |-> LocalKeys, hashes |-> Hashes,
              statuses |-> Statuses, limit |-> MaxLimit,
              failures |-> MAX_RETRIES,
              args |-> {PlainArgs}]

Next ==
    \/ (\E r \in Reqs, l \in LocalKeys, a \in Args : Call(r, l, a)) /\ UNCHANGED <<tpVars, mgrVars, shardVars, callVars, rdVars, dlVars, tdVars>>
    \/ (\E r \in Inflight, h \in Responses : Respond(r, h)) /\ UNCHANGED <<tpVars, mgrVars, shardVars, callVars, rdVars, dlVars, tdVars>>
    \/ (\E r \in Reqs : Resume(r)) /\ UNCHANGED <<tpVars, mgrVars, shardVars, callVars, rdVars, dlVars, tdVars>>
    \/ (\E r \in Reqs : SleepDone(r)) /\ UNCHANGED <<tpVars, mgrVars, shardVars, callVars, rdVars, dlVars, tdVars>>
    \/ GlobalTimer /\ UNCHANGED <<tpVars, mgrVars, shardVars, callVars, rdVars, dlVars, tdVars>>
    \/ (\E b \in BucketIds : BucketTimer(b)) /\ UNCHANGED <<tpVars, mgrVars, shardVars, callVars, rdVars, dlVars, tdVars>>
    \/ HTTPTick /\ UNCHANGED <<tpVars, mgrVars, shardVars, callVars, rdVars, dlVars, tdVars>>

Spec == Init /\ [][Next]_vars

SpecGate == InitGate /\ [][Next]_vars

SpecRetry == InitRetry /\ [][Next]_vars

HTTPIdle ==
    /\ HTTPInit
    /\ cfg = [callers |-> {}, locals |-> {}, hashes |-> {}, statuses |-> {},
              limit |-> 0, failures |-> 0, args |-> {}]

\* Four tasks calling acquire() on one TimePer.
InitTimePer == HTTPIdle /\ TPInit /\ MgrInit /\ ShardIdle /\ CallsIdle /\ RawIdle /\ DeliverIdle /\ TypedIdle

NextTimePer ==
    \/ (\E t \in Tasks : TPAcquire(t)) /\ UNCHANGED <<httpVars, mgrVars, shardVars, callVars, rdVars, dlVars, tdVars>>
    \/ (\E t \in Tasks : TPResume(t)) /\ UNCHANGED <<httpVars, mgrVars, shardVars, callVars, rdVars, dlVars, tdVars>>
    \/ TPReset /\ UNCHANGED <<httpVars, mgrVars, shardVars, callVars, rdVars, dlVars, tdVars>>
    \/ TPTick /\ UNCHANGED <<httpVars, mgrVars, shardVars, callVars, rdVars, dlVars, tdVars>>

SpecTimePer == InitTimePer /\ [][NextTimePer]_vars

\* Four tasks calling acquire() on one TimePer, any of them cancelled while it
\* waits.
InitTimePerCancel == HTTPIdle /\ TPInit /\ MgrInit /\ ShardIdle /\ CallsIdle /\ RawIdle /\ DeliverIdle /\ TypedIdle

NextTimePerCancel ==
    \/ (\E t \in Tasks : TPAcquire(t)) /\ UNCHANGED <<httpVars, mgrVars, shardVars, callVars, rdVars, dlVars, tdVars>>
    \/ (\E t \in Tasks : TPResume(t)) /\ UNCHANGED <<httpVars, mgrVars, shardVars, callVars, rdVars, dlVars, tdVars>>
    \/ TPReset /\ UNCHANGED <<httpVars, mgrVars, shardVars, callVars, rdVars, dlVars, tdVars>>
    \/ TPTick /\ UNCHANGED <<httpVars, mgrVars, shardVars, callVars, rdVars, dlVars, tdVars>>
    \/ (\E t \in Tasks : TPCancel(t)) /\ UNCHANGED <<httpVars, mgrVars, shardVars, callVars, rdVars, dlVars, tdVars>>

SpecTimePerCancel == InitTimePerCancel /\ [][NextTimePerCancel]_vars

\* A manager that starts its shards and rescales them.
InitIdentify == HTTPIdle /\ TPIdle /\ MgrInit /\ ShardIdle /\ CallsIdle /\ RawIdle /\ DeliverIdle /\ TypedIdle

NextIdentify ==
    \/ (\E mc \in 1..MaxConcurrency, n \in 1..MaxShards : Start(mc, n))
          /\ UNCHANGED <<httpVars, tpVars, shardVars, callVars, rdVars, dlVars, tdVars>>
    \/ (\E count \in 1..MaxShards : Rescale(count))
          /\ UNCHANGED <<httpVars, tpVars, shardVars, callVars, rdVars, dlVars, tdVars>>
    \/ RescaleEnd /\ UNCHANGED <<httpVars, tpVars, shardVars, callVars, rdVars, dlVars, tdVars>>
    \/ (\E s \in 1..MaxShardObjs : Connected(s))
          /\ UNCHANGED <<httpVars, tpVars, shardVars, callVars, rdVars, dlVars, tdVars>>
    \/ (\E s \in 1..MaxShardObjs : Hello(s))
          /\ UNCHANGED <<httpVars, tpVars, shardVars, callVars, rdVars, dlVars, tdVars>>
    \/ (\E s \in 1..MaxShardObjs : HandleHello(s))
          /\ UNCHANGED <<httpVars, tpVars, shardVars, callVars, rdVars, dlVars, tdVars>>
    \/ (\E s \in 1..MaxShardObjs : IdentifyResume(s))
          /\ UNCHANGED <<httpVars, tpVars, shardVars, callVars, rdVars, dlVars, tdVars>>
    \/ (\E l \in 1..MaxConcurrency : LimiterReset(l))
          /\ UNCHANGED <<httpVars, tpVars, shardVars, callVars, rdVars, dlVars, tdVars>>
    \/ MgrTick /\ UNCHANGED <<httpVars, tpVars, shardVars, callVars, rdVars, dlVars, tdVars>>

SpecIdentify == InitIdentify /\ [][NextIdentify]_vars

\* A manager whose rescale() may meet a failing connect() or a cancellation,
\* watched for less than the five seconds of an identify limiter.
InitRescale == HTTPIdle /\ TPIdle /\ MgrInit /\ ShardIdle /\ CallsIdle /\ RawIdle /\ DeliverIdle /\ TypedIdle

NextRescale ==
    \/ (\E mc \in 1..MaxConcurrency, n \in 1..MaxRescale : Start(mc, n))
          /\ UNCHANGED <<httpVars, tpVars, shardVars, callVars, rdVars, dlVars, tdVars>>
    \/ (\E count \in 1..MaxRescale : Rescale(count))
          /\ UNCHANGED <<httpVars, tpVars, shardVars, callVars, rdVars, dlVars, tdVars>>
    \/ RescaleEnd /\ UNCHANGED <<httpVars, tpVars, shardVars, callVars, rdVars, dlVars, tdVars>>
    \/ (\E cancelled \in BOOLEAN : RescaleAbort(cancelled))
          /\ UNCHANGED <<httpVars, tpVars, shardVars, callVars, rdVars, dlVars, tdVars>>
    \/ (\E s \in 1..MaxShardObjs : Connected(s))
          /\ UNCHANGED <<httpVars, tpVars, shardVars, callVars, rdVars, dlVars, tdVars>>
    \/ (\E s \in 1..MaxShardObjs : ConnectFail(s))
          /\ UNCHANGED <<httpVars, tpVars, shardVars, callVars, rdVars, dlVars, tdVars>>
    \/ (\E s \in 1..MaxShardObjs : Hello(s))
          /\ UNCHANGED <<httpVars, tpVars, shardVars, callVars, rdVars, dlVars, tdVars>>
    \/ (\E s \in 1..MaxShardObjs : HandleHello(s))
          /\ UNCHANGED <<httpVars, tpVars, shardVars, callVars, rdVars, dlVars, tdVars>>

SpecRescale == InitRescale /\ [][NextRescale]_vars

\* A manager that may be closed at any moment between two rescales.
InitClose == HTTPIdle /\ TPIdle /\ MgrInit /\ ShardIdle /\ CallsIdle /\ RawIdle /\ DeliverIdle /\ TypedIdle

NextClose ==
    \/ (\E mc \in 1..MaxConcurrency, n \in 1..MaxRescale : Start(mc, n))
          /\ UNCHANGED <<httpVars, tpVars, shardVars, callVars, rdVars, dlVars, tdVars>>
    \/ (\E count \in 1..MaxRescale : Rescale(count))
          /\ UNCHANGED <<httpVars, tpVars, shardVars, callVars, rdVars, dlVars, tdVars>>
    \/ RescaleEnd /\ UNCHANGED <<httpVars, tpVars, shardVars, callVars, rdVars, dlVars, tdVars>>
    \/ (\E cancelled \in BOOLEAN : RescaleAbort(cancelled))
          /\ UNCHANGED <<httpVars, tpVars, shardVars, callVars, rdVars, dlVars, tdVars>>
    \/ (\E s \in 1..MaxShardObjs : Connected(s))
          /\ UNCHANGED <<httpVars, tpVars, shardVars, callVars, rdVars, dlVars, tdVars>>
    \/ (\E s \in 1..MaxShardObjs : ConnectFail(s))
          /\ UNCHANGED <<httpVars, tpVars, shardVars, callVars, rdVars, dlVars, tdVars>>
    \/ (\E s \in 1..MaxShardObjs : Hello(s))
          /\ UNCHANGED <<httpVars, tpVars, shardVars, callVars, rdVars, dlVars, tdVars>>
    \/ (\E s \in 1..MaxShardObjs : HandleHello(s))
          /\ UNCHANGED <<httpVars, tpVars, shardVars, callVars, rdVars, dlVars, tdVars>>
    \/ Close /\ UNCHANGED <<httpVars, tpVars, shardVars, callVars, rdVars, dlVars, tdVars>>

SpecClose == InitClose /\ [][NextClose]_vars

\* One connection of a shard: the gateway and the calls of the application.
InitShard == HTTPIdle /\ TPIdle /\ MgrInit /\ ShardInit /\ CallsIdle /\ RawIdle /\ DeliverIdle /\ TypedIdle

NextShard ==
    \/ ConnectCall(1) /\ UNCHANGED <<httpVars, tpVars, mgrVars, callVars, rdVars, dlVars, tdVars>>
    \/ (\E c \in 1..MaxWs : ConnectReturn(c))
          /\ UNCHANGED <<httpVars, tpVars, mgrVars, callVars, rdVars, dlVars, tdVars>>
    \/ (\E keep_session \in BOOLEAN : DisconnectCall(keep_session))
          /\ UNCHANGED <<httpVars, tpVars, mgrVars, callVars, rdVars, dlVars, tdVars>>
    \/ ResumeCall /\ UNCHANGED <<httpVars, tpVars, mgrVars, callVars, rdVars, dlVars, tdVars>>
    \/ (\E c \in 1..MaxWs, f \in AllFrames : ConnectionLoop(c, f, MaxHello))
          /\ UNCHANGED <<httpVars, tpVars, mgrVars, callVars, rdVars, dlVars, tdVars>>
    \/ (\E c \in 1..MaxWs, close_code \in CloseCodes :
            ConnectionClosed(c, close_code))
          /\ UNCHANGED <<httpVars, tpVars, mgrVars, callVars, rdVars, dlVars, tdVars>>
    \/ (\E t \in 1..MaxTaskObjs : HeartbeatLoop(t))
          /\ UNCHANGED <<httpVars, tpVars, mgrVars, callVars, rdVars, dlVars, tdVars>>

SpecShard == InitShard /\ [][NextShard]_vars

\* A shard over several connections; the application only calls connect()
\* and the gateway sends one HELLO on a connection.
InitReconnect == HTTPIdle /\ TPIdle /\ MgrInit /\ ShardInit /\ CallsIdle /\ RawIdle /\ DeliverIdle /\ TypedIdle

\* the gateway accepts a connection
GatewayAccepts ==
    (\E c \in 1..MaxWs : ConnectReturn(c))
       /\ UNCHANGED <<httpVars, tpVars, mgrVars, callVars, rdVars, dlVars, tdVars>>

\* the gateway greets an open connection
GatewayHello ==
    (\E c \in 1..MaxWs : ConnectionLoop(c, Frame(10, None, NoStr, FALSE), 1))
       /\ UNCHANGED <<httpVars, tpVars, mgrVars, callVars, rdVars, dlVars, tdVars>>

\* the sleep of a heartbeat task ends
HeartbeatRuns ==
    (\E t \in 1..MaxTaskObjs : HeartbeatLoop(t))
       /\ UNCHANGED <<httpVars, tpVars, mgrVars, callVars, rdVars, dlVars, tdVars>>

NextReconnect ==
    \/ ConnectCall(MaxWs) /\ UNCHANGED <<httpVars, tpVars, mgrVars, callVars, rdVars, dlVars, tdVars>>
    \/ GatewayAccepts
    \/ GatewayHello
    \/ (\E c \in 1..MaxWs, f \in AllFrames :
            f.op # 10 /\ ConnectionLoop(c, f, 1))
          /\ UNCHANGED <<httpVars, tpVars, mgrVars, callVars, rdVars, dlVars, tdVars>>
    \/ (\E c \in 1..MaxWs, close_code \in CloseCodes :
            ConnectionClosed(c, close_code))
          /\ UNCHANGED <<httpVars, tpVars, mgrVars, callVars, rdVars, dlVars, tdVars>>
    \/ HeartbeatRuns

\* connect_gateway returns, the gateway sends its HELLO and asyncio.sleep
\* ends; nothing obliges the gateway to send any other frame or the
\* application to call connect() again
SpecReconnect ==
    /\ InitReconnect
    /\ [][NextReconnect]_vars
    /\ WF_vars(GatewayAccepts)
    /\ WF_vars(GatewayHello)
    /\ WF_vars(HeartbeatRuns)

\* the close codes after which _handle_close_code calls connect(), always or
\* when should_reconnect is set, with a session it does not mean to keep
ReconnectCodes == {1000, 4001, 4002, 4003, 4005, 4007, 4009}

\* A shard over several connections that the gateway closes with one of
\* ReconnectCodes; the gateway sends one HELLO on a connection.
InitCloseCode == HTTPIdle /\ TPIdle /\ MgrInit /\ ShardInit /\ CallsIdle /\ RawIdle /\ DeliverIdle /\ TypedIdle

NextCloseCode ==
    \/ ConnectCall(MaxWs) /\ UNCHANGED <<httpVars, tpVars, mgrVars, callVars, rdVars, dlVars, tdVars>>
    \/ GatewayAccepts
    \/ GatewayHello
    \/ (\E c \in 1..MaxWs, f \in AllFrames :
            f.op # 10 /\ ConnectionLoop(c, f, 1))
          /\ UNCHANGED <<httpVars, tpVars, mgrVars, callVars, rdVars, dlVars, tdVars>>
    \/ (\E c \in 1..MaxWs, close_code \in ReconnectCodes :
            ConnectionClosed(c, close_code))
          /\ UNCHANGED <<httpVars, tpVars, mgrVars, callVars, rdVars, dlVars, tdVars>>
    \/ HeartbeatRuns

SpecCloseCode ==
    /\ InitCloseCode
    /\ [][NextCloseCode]_vars
    /\ WF_vars(GatewayAccepts)
    /\ WF_vars(GatewayHello)
    /\ WF_vars(HeartbeatRuns)

\* One connection of a shard whose disconnect() is called by up to MaxCallers
\* tasks of the application, one after the other or at the same time.
InitDisconnect == HTTPIdle /\ TPIdle /\ MgrInit /\ ShardInit /\ CallsIdle /\ RawIdle /\ DeliverIdle /\ TypedIdle

NextDisconnect ==
    \/ ConnectCall(1) /\ UNCHANGED <<httpVars, tpVars, mgrVars, callVars, rdVars, dlVars, tdVars>>
    \/ (\E c \in 1..MaxWs : ConnectReturn(c))
          /\ UNCHANGED <<httpVars, tpVars, mgrVars, callVars, rdVars, dlVars, tdVars>>
    \/ (\E c \in 1..MaxWs, f \in AllFrames : ConnectionLoop(c, f, 1))
          /\ UNCHANGED <<httpVars, tpVars, mgrVars, callVars, rdVars, dlVars, tdVars>>
    \/ (\E c \in 1..MaxWs, close_code \in CloseCodes :
            ConnectionClosed(c, close_code))
          /\ UNCHANGED <<httpVars, tpVars, mgrVars, callVars, rdVars, dlVars, tdVars>>
    \/ (\E t \in 1..MaxTaskObjs : HeartbeatLoop(t))
          /\ UNCHANGED <<httpVars, tpVars, mgrVars, callVars, rdVars, dlVars, tdVars>>
    \/ (\E k \in Callers, keep_session \in BOOLEAN :
            DisconnectBegin(k, keep_session))
          /\ UNCHANGED <<httpVars, tpVars, mgrVars, rdVars, dlVars, tdVars>>
    \/ (\E k \in Callers : DisconnectClosed(k))
          /\ UNCHANGED <<httpVars, tpVars, mgrVars, rdVars, dlVars, tdVars>>
    \/ (\E k \in Callers : DisconnectReturn(k))
          /\ UNCHANGED <<httpVars, tpVars, mgrVars, rdVars, dlVars, tdVars>>

SpecDisconnect == InitDisconnect /\ [][NextDisconnect]_vars

\* One RawDispatcher: registrations, waiters and their timeouts, dispatches.
InitRaw ==
    HTTPIdle /\ TPIdle /\ MgrInit /\ ShardIdle /\ CallsIdle /\ RawIdle /\ DeliverIdle /\ TypedIdle

NextRaw ==
    \/ (\E event \in Keys : RDAddListener(event))
          /\ UNCHANGED <<httpVars, tpVars, mgrVars, shardVars, callVars, dlVars, tdVars>>
    \/ RDAddHandler
          /\ UNCHANGED <<httpVars, tpVars, mgrVars, shardVars, callVars, dlVars, tdVars>>
    \/ (\E event \in Keys, check \in Payloads : RDWaitFor(event, check))
          /\ UNCHANGED <<httpVars, tpVars, mgrVars, shardVars, callVars, dlVars, tdVars>>
    \/ (\E w \in 1..MaxWaiters : RDTimeout(w))
          /\ UNCHANGED <<httpVars, tpVars, mgrVars, shardVars, callVars, dlVars, tdVars>>
    \/ (\E event \in Keys, metadata \in Payloads :
            RDDispatch(event, metadata))
          /\ UNCHANGED <<httpVars, tpVars, mgrVars, shardVars, callVars, dlVars, tdVars>>

SpecRaw == InitRaw /\ [][NextRaw]_vars

\* One RawDispatcher whose event handler is added and removed, with waiters
\* under one event.
InitRawHandlers ==
    HTTPIdle /\ TPIdle /\ MgrInit /\ ShardIdle /\ CallsIdle /\ RawIdle
       /\ DeliverIdle /\ TypedIdle

NextRawHandlers ==
    \/ (\E event \in Keys : RDAddListener(event)) /\ UNCHANGED <<httpVars, tpVars, mgrVars, shardVars, callVars, dlVars, tdVars>>
    \/ RDAddHandler /\ UNCHANGED <<httpVars, tpVars, mgrVars, shardVars, callVars, dlVars, tdVars>>
    \/ RDRemoveHandler /\ UNCHANGED <<httpVars, tpVars, mgrVars, shardVars, callVars, dlVars, tdVars>>
    \/ (\E check \in Payloads : RDWaitFor("k1", check)) /\ UNCHANGED <<httpVars, tpVars, mgrVars, shardVars, callVars, dlVars, tdVars>>
    \/ (\E w \in 1..MaxWaiters : RDTimeout(w)) /\ UNCHANGED <<httpVars, tpVars, mgrVars, shardVars, callVars, dlVars, tdVars>>
    \/ (\E event \in Keys, metadata \in Payloads : RDDispatch(event, metadata)) /\ UNCHANGED <<httpVars, tpVars, mgrVars, shardVars, callVars, dlVars, tdVars>>

SpecRawHandlers == InitRawHandlers /\ [][NextRawHandlers]_vars

\* One connection task reading DISPATCH frames of an event that has
\* EventListeners by-name listeners, each of which may raise.
InitDeliver ==
    HTTPIdle /\ TPIdle /\ MgrInit /\ ShardIdle /\ CallsIdle /\ RawIdle
       /\ DeliverIdle /\ TypedIdle

NextDeliver ==
    \/ DLRead
          /\ UNCHANGED <<httpVars, tpVars, mgrVars, shardVars, callVars, rdVars, tdVars>>
    \/ (\E t \in 1..MaxLTasks : DLStart(t))
          /\ UNCHANGED <<httpVars, tpVars, mgrVars, shardVars, callVars, rdVars, tdVars>>
    \/ (\E t \in 1..MaxLTasks, raises \in BOOLEAN : DLFinish(t, raises))
          /\ UNCHANGED <<httpVars, tpVars, mgrVars, shardVars, callVars, rdVars, tdVars>>

SpecDeliver == InitDeliver /\ [][NextDeliver]_vars

\* One TypedDispatcher with up to MaxTListeners listeners, each of which may
\* return, raise or be cancelled on every event it gets.
InitTyped ==
    HTTPIdle /\ TPIdle /\ MgrInit /\ ShardIdle /\ CallsIdle /\ RawIdle
       /\ DeliverIdle /\ TypedIdle

NextTyped ==
    \/ (\E cls \in EventClasses : TDAddListener(cls))
          /\ UNCHANGED <<httpVars, tpVars, mgrVars, shardVars, callVars, rdVars, dlVars>>
    \/ TDDispatch
          /\ UNCHANGED <<httpVars, tpVars, mgrVars, shardVars, callVars, rdVars, dlVars>>
    \/ (\E t \in 1..MaxTTasks, outcome \in {"done", "raised", "cancelled"} :
            TDRunListener(t, outcome))
          /\ UNCHANGED <<httpVars, tpVars, mgrVars, shardVars, callVars, rdVars, dlVars>>

SpecTyped == InitTyped /\ [][NextTyped]_vars

\* Two concurrent calls on one route, with any arguments.
InitValidate ==
    /\ HTTPInit
    /\ TPIdle
    /\ MgrInit
    /\ ShardIdle
    /\ CallsIdle
    /\ RawIdle /\ DeliverIdle /\ TypedIdle
    /\ cfg = [callers |-> {1, 2}, locals |-> {"/a"}, hashes |-> {"h1"},
              statuses |-> {200, 429, 500}, limit |-> 1, failures |-> 1,
              args |-> Args]

SpecValidate == InitValidate /\ [][Next]_vars

\* One Bucket whose update_from and acquire are called in any order.
InitBucket ==
    /\ local_to_discord = [l \in LocalKeys |-> NoHash]
    /\ buckets = [k \in AllKeys |-> 0]
    /\ bucketObjs = <<BucketNew>>
    /\ global_lock = LockNew
    /\ req = [r \in Reqs |-> ReqNew]
    /\ mustClose = [b \in BucketIds |-> 0]
    /\ gMustClose = 0
    /\ cfg = [callers |-> {}, locals |-> {}, hashes |-> {}, statuses |-> {},
              limit |-> 0, failures |-> 0, args |-> {}]
    /\ TPIdle /\ MgrInit /\ ShardIdle /\ CallsIdle /\ RawIdle
    /\ DeliverIdle /\ TypedIdle

NextBucket ==
    \/ (\E h \in Responses : BKUpdateFrom(h)) /\ UNCHANGED <<tpVars, mgrVars, shardVars, callVars, rdVars, dlVars, tdVars>>
    \/ (\E auto_lock \in BOOLEAN : BKAcquire(auto_lock)) /\ UNCHANGED <<tpVars, mgrVars, shardVars, callVars, rdVars, dlVars, tdVars>>
    \/ BucketTimer(1) /\ UNCHANGED <<tpVars, mgrVars, shardVars, callVars, rdVars, dlVars, tdVars>>
    \/ HTTPTick /\ UNCHANGED <<tpVars, mgrVars, shardVars, callVars, rdVars, dlVars, tdVars>>

SpecBucket == InitBucket /\ [][NextBucket]_vars

\* ------------------------------------------------------------ REST claims

Sent(r) == req[r].pc \in {"inflight", "bwait211", "bready211"}

\* C1: two request() calls that hold the same Bucket never have their HTTP
\* calls open together: a call is sent only after the response of every
\* other call on that bucket went through update_from and acquire.
C1_SendsSerialized ==
    \A r1, r2 \in Reqs :
        (r1 # r2 /\ Sent(r1) /\ req[r2].pc = "inflight")
            => req[r1].bucket # req[r2].bucket

\* C2: no request() call starts an HTTP send while the global lock is
\* closed, whichever gate it was waiting at when the lock closed.
C2_NoSendWhileGlobalClosed ==
    [][\A r \in Reqs : req'[r].sends > req[r].sends => global_lock.isset]_vars

Live(r) == req[r].pc \notin {"idle", "done"}

\* C3: the registry never shows a local key mapped to a hash without a
\* bucket under the composite key, every key of a local key names the one
\* Bucket first registered under it, every running request of that local
\* key holds that Bucket, and no second Bucket is ever built for it.
C3_MigrationAtomic ==
    /\ \A l \in LocalKeys :
          /\ local_to_discord[l] # NoHash =>
                /\ buckets[l] # 0
                /\ buckets[CompositeKey(local_to_discord[l], l)] = buckets[l]
          /\ \A h \in Hashes :
                buckets[CompositeKey(h, l)] \in {0, buckets[l]}
    /\ \A r \in Reqs :
          Live(r) => /\ req[r].bucket # 0
                     /\ req[r].bucket = buckets[req[r].local]
    /\ Len(bucketObjs) = Cardinality({l \in LocalKeys : buckets[l] # 0})

\* two running requests of one local key have both gone through migration
C3_Witness ==
    \E r1, r2 \in Reqs :
        /\ r1 # r2 /\ Live(r1) /\ Live(r2)
        /\ req[r1].local = req[r2].local
        /\ req[r1].migrated /\ req[r2].migrated
        /\ req[r1].discord_hash = req[r2].discord_hash

\* C4: for reset_after (lag included) after a response set the remaining of
\* an enabled bucket to 0, the bucket's lock is closed.
C4_ClosedForResetAfter ==
    \A b \in 1..Len(bucketObjs) :
        (bucketObjs[b].enabled /\ mustClose[b] > 0) => ~bucketObjs[b].lock.isset

\* C5: a bucket that is disabled stays disabled, and no request() call
\* suspends in acquire() on a disabled bucket.
C5_DisabledNeverGates ==
    [][/\ \A b \in 1..Len(bucketObjs) :
             ~bucketObjs[b].enabled => ~bucketObjs'[b].enabled
       /\ \A r \in Reqs :
             (req'[r].pc \in BWait /\ req[r].pc \notin BWait)
                 => bucketObjs'[req'[r].bucket].enabled]_vars

BeforeSend == {"gwait186", "gready186", "bwait188", "bready188"}
AfterSend == {"inflight", "bwait211", "bready211", "gwait240", "gready240",
              "bwait249", "bready249", "sleep276"}

\* C6: a request() call sends at most MAX_RETRIES times; the number of
\* sends is the number of attempts begun, migrations or not; a call whose
\* last response is 429, 500 or 502 has used all attempts and returned None.
C6_AtMostFiveSends ==
    \A r \in Reqs :
        /\ req[r].sends <= MAX_RETRIES
        /\ req[r].pc \in BeforeSend => req[r].sends = req[r].try_
        /\ req[r].pc \in AfterSend => req[r].sends = req[r].try_ + 1
        /\ (req[r].pc = "done" /\ req[r].status \in {429, 500, 502})
              => (req[r].sends = MAX_RETRIES /\ req[r].result = "none")
        /\ (req[r].pc = "done" /\ req[r].result = "none")
              => req[r].sends = MAX_RETRIES

\* a call that migrated its bucket, was answered 429 five times and returned
C6_Witness ==
    \E r \in Reqs :
        /\ req[r].pc = "done" /\ req[r].result = "none"
        /\ req[r].sends = MAX_RETRIES /\ req[r].status = 429
        /\ \E l \in LocalKeys : local_to_discord[l] # NoHash

\* C7: for Retry-After after a global 429 was processed the global lock
\* stays closed, whether or not it was closed already.
C7_GlobalClosedForRetryAfter == gMustClose > 0 => ~global_lock.isset

\* --------------------------------------------------------- TimePer claims

\* C8: at most `limit` acquire() calls return within any rolling interval
\* of `per` ticks.
C8_RollingWindow == Len(acqAge) <= tp.limit

\* C9: no acquire() call fails with an error, however many tasks wait.
C9_NoAcquireFails == \A t \in Tasks : task[t] # "failed"

\* --------------------------------------------------------- manager claims

\* the shards the manager holds, current and pending
Held == {current_shards[i] : i \in 1..Len(current_shards)}
          \cup {pending_shards[i] : i \in 1..Len(pending_shards)}

IdentifyKey(s) == shardObjs[s].shard_id % max_concurrency

\* C10 (sharing): shards of one identify key, current and pending, hold one
\* limiter, and shards of different keys hold different limiters.
C10_OneLimiterPerKey ==
    \A s1, s2 \in Held :
        (IdentifyKey(s1) = IdentifyKey(s2))
            <=> (shardObjs[s1].identify_ratelimit
                    = shardObjs[s2].identify_ratelimit)

\* C10: shards of one identify key share one limiter, and the shards of a
\* key send at most max_concurrency IDENTIFYs within any 5 seconds.
C10_IdentifyWindow ==
    /\ C10_OneLimiterPerKey
    /\ \A l \in 1..Len(limiters) : Len(idAge[l]) <= max_concurrency

\* the shards in list ss
Members(ss) == {ss[i] : i \in 1..Len(ss)}

\* C11: when every new shard's connect() succeeded, rescale() ends with the
\* new shards as current_shards, all of them connected, the old shards
\* disconnected, pending_shards empty and the pending count cleared; and an
\* old shard is disconnected only in a step that leaves every new shard
\* connected.
C11_RescaleSwaps ==
    [][RescaleEnd =>
          /\ current_shards' = pending_shards
          /\ \A s \in Members(pending_shards) : HasWs(shardObjs'[s])
          /\ \A s \in Members(current_shards) : ~HasWs(shardObjs'[s])
          /\ pending_shards' = << >>
          /\ pending_shard_count' = None]_vars

\* C12: when a connect() fails or rescale() is cancelled, rescale() ends
\* with the pending shards disconnected, current_shards and its shards as
\* they were, pending_shards empty and the pending count cleared.
C12_AbortCleansUp ==
    [][(\E cancelled \in BOOLEAN : RescaleAbort(cancelled)) =>
          /\ \A s \in Members(pending_shards) : ~HasWs(shardObjs'[s])
          /\ current_shards' = current_shards
          /\ \A s \in Members(current_shards) : shardObjs'[s] = shardObjs[s]
          /\ pending_shards' = << >>
          /\ pending_shard_count' = None]_vars

\* ----------------------------------------------------------- shard claims

\* websocket c, the shard's latest, was closed by the gateway with code 4000
\* while the shard held session S with resume URL R
Resumable(c) ==
    /\ Len(wsObjs) = c
    /\ wsObjs[c].close_code = 4000
    /\ shard.session_id = "S"
    /\ shard.resume_url = "R"

\* the shard has asked for a websocket after c, to R
Reopened(c) == Len(wsObjs) > c /\ wsObjs[c + 1].url = "R"

\* C13: after READY gave the shard session S and resume URL R, a close with
\* code 4000 leads to a next connection to R; no IDENTIFY is sent on a
\* connection to R, and the RESUME sent there names session S and the
\* sequence number of the last DISPATCH.
C13_ResumeAfter4000 ==
    /\ \A c \in 1..(MaxWs - 1) : Resumable(c) ~> Reopened(c)
    /\ [][\A c \in 1..Len(wsObjs) :
             /\ wsObjs'[c].url = "R" => ~wsObjs'[c].identify
             /\ wsObjs'[c].resume # wsObjs[c].resume =>
                    wsObjs'[c].resume = <<[session_id |-> "S",
                                          seq |-> gseq]>>]_vars

FatalCodes == {4004, 4010, 4011, 4012, 4013, 4014}

\* C14: the connection task of a websocket the gateway closed with a fatal
\* code has ended with the typed error of that code, the shard has no
\* websocket, no session, resume URL or sequence, and has opened no further
\* connection.
C14_FatalCloseRaises ==
    \A t \in 1..Len(taskObjs) :
        (/\ taskObjs[t].kind = "connection"
         /\ wsObjs[taskObjs[t].ws].close_code \in FatalCodes)
            => /\ ~LiveTask(taskObjs[t])
               /\ taskObjs[t].exc = Raised(wsObjs[taskObjs[t].ws].close_code)
               /\ shard.ws = 0
               /\ shard.session_id = NoStr
               /\ shard.resume_url = NoStr
               /\ shard.sequence = None
               /\ Len(wsObjs) = taskObjs[t].ws

\* websocket c, the shard's latest, has carried a RECONNECT
Reconnecting(c) == Len(wsObjs) = c /\ wsObjs[c].reconnect

\* the websocket after c is open and a connection task reads it
Reconnected(c) ==
    /\ Len(wsObjs) > c
    /\ wsObjs[c + 1].st = "open"
    /\ Reader(c + 1) # 0

\* C15: after a RECONNECT the shard eventually has a new websocket open and
\* a connection task reading it.
C15_ReconnectReconnects ==
    \A c \in 1..(MaxWs - 1) : Reconnecting(c) ~> Reconnected(c)

\* heartbeat task t has sent a heartbeat and awaits the future of its ACK
AckWait(t) == t <= Len(taskObjs) /\ taskObjs[t].pc = "wait"

\* C16: a heartbeat task does not wait for its HEARTBEAT_ACK forever: the
\* ACK arrives or the shard disconnects (cancelling the task) to reconnect.
C16_AckWaitEnds ==
    \A t \in 1..MaxTaskObjs : AckWait(t) ~> ~AckWait(t)

\* C17: no websocket carries two heartbeats that no HEARTBEAT_ACK has
\* answered, and no HEARTBEAT_ACK ends the connection task with an error.
C17_HeartbeatAckPairs ==
    /\ \A c \in 1..Len(wsObjs) : wsObjs[c].hb_out <= 1
    /\ \A t \in 1..Len(taskObjs) : taskObjs[t].exc # "InvalidStateError"

LiveTasks(kind) ==
    {t \in 1..Len(taskObjs) :
        taskObjs[t].kind = kind /\ LiveTask(taskObjs[t])}

\* C18: a shard never has more than one live heartbeat task nor more than
\* one live connection-read task.
C18_OneTaskOfEachKind ==
    /\ Cardinality(LiveTasks("heartbeat")) <= 1
    /\ Cardinality(LiveTasks("connection")) <= 1

\* C19: a RESUME is sent only by a shard that holds a session, and an
\* IDENTIFY only by one that holds none.
C19_ResumeNeedsSession ==
    [][\A c \in 1..Len(wsObjs) :
          /\ wsObjs'[c].resume # wsObjs[c].resume
                => shard.session_id # NoStr
          /\ (wsObjs'[c].identify /\ ~wsObjs[c].identify)
                => shard.session_id = NoStr]_vars

\* C20: while the shard keeps one websocket, a step in which no DISPATCH
\* arrives leaves `sequence` unchanged, and a DISPATCH does not lower it.
C20_SequenceMonotonic ==
    [][(shard.ws # 0 /\ shard'.ws = shard.ws) =>
          IF gseq' = gseq THEN shard'.sequence = shard.sequence
          ELSE shard'.sequence >= shard.sequence]_vars

\* ------------------------------------------------------ disconnect claims

\* the only disconnect() call made so far is the one of task k
OnlyCall(k) == \A j \in Callers \ {k} : calls[j].pc = "idle"

SessionFields == <<shard.session_id, shard.resume_url, shard.sequence>>

C22_DisconnectNotConnected ==
    [][\A k \in Callers, keep_session \in BOOLEAN :
          (shard.ws = 0 /\ DisconnectBegin(k, keep_session))
             => (calls'[k].pc = "returned" /\ UNCHANGED shardVars)]_vars

\* C23: when a second disconnect() is called while the first one is closing
\* the socket of a connected shard, the socket is closed once, one
\* "disconnect" event is dispatched and neither call raises.
C23_ConcurrentDisconnect ==
    \A j, k \in Callers :
       (/\ j # k
        /\ calls[j].closed
        /\ calls[k].overlap
        /\ calls[j].pc \in {"returned", "raised"}
        /\ calls[k].pc \in {"returned", "raised"})
          => /\ calls[j].exc = "" /\ calls[k].exc = ""
             /\ Cardinality({i \in {j, k} : calls[i].closed}) = 1
             /\ Cardinality({i \in {j, k} : calls[i].dispatched}) = 1

\* C24: Manager.close() leaves current_shards and pending_shards empty and
\* every shard they held disconnected, whatever the state of each shard.
C24_CloseClearsAll ==
    [][Close => /\ current_shards' = << >>
                /\ pending_shards' = << >>
                /\ \A s \in Members(current_shards \o pending_shards) :
                      ~HasWs(shardObjs'[s])]_vars

\* ----------------------------------------------------- cancellation claims

\* C30: cancelling a task suspended in TimePer.acquire() raises no error,
\* takes exactly that task's future out of the queue, leaves `remaining` and
\* the order of the other futures unchanged and disturbs no other task, also
\* when the reset timer has fired and the task has not resumed yet.
C30_CancelDequeues ==
    [][\A t \in Tasks :
          TPCancel(t)
             => /\ task'[t] # "error"
                /\ tp'.remaining = tp.remaining
                /\ tp'.pending = SelectSeq(tp.pending, LAMBDA f : f # t)
                /\ \A f \in Members(tp'.pending) : task'[f] = "waiting"
                /\ \A u \in Tasks \ {t} : task'[u] = task[u]]_vars

\* ------------------------------------------------------ dispatcher claims

\* C26: dispatch(event, metadata) handles every waiter registered under the
\* event: a cancelled one is removed, the check of every other one is called
\* exactly once; none is skipped.
C26_EveryWaiterProcessed ==
    [][\A event \in Keys, metadata \in Payloads :
          RDDispatch(event, metadata)
             => \A w \in Members(rd.waiters[event]) :
                   /\ futs[w].st = "cancelled"
                         => w \notin Members(rd'.waiters[event])
                   /\ futs[w].st # "cancelled"
                         => futs'[w].evals = futs[w].evals + 1]_vars

\* C27: a future of wait_for(event, check) stays registered while it is
\* pending, whatever was dispatched before, and the first dispatch under its
\* event whose metadata satisfies the check gives it that metadata as result.
C27_WaiterResolves ==
    /\ [](\A w \in 1..Len(futs) :
             futs[w].st = "pending"
                => w \in Members(rd.waiters[futs[w].event]))
    /\ [][\A event \in Keys, metadata \in Payloads :
             RDDispatch(event, metadata)
                => \A w \in 1..Len(futs) :
                      (/\ futs[w].st = "pending"
                       /\ futs[w].event = event
                       /\ futs[w].check = metadata)
                         => /\ futs'[w].st = "result"
                            /\ futs'[w].result = metadata]_vars

\* C28: dispatch() never returns None: with nothing registered under the
\* event it returns a completed future.
C28_DispatchReturnsAwaitable ==
    [][\A event \in Keys, metadata \in Payloads :
          RDDispatch(event, metadata) => ret' # "None"]_vars

\* C25: the by-name listeners get the DISPATCH frames in the order of
\* arrival: no listener task of a later frame has started while a listener
\* task of an earlier frame has not, and when the connection task has
\* dispatched frame n+1 every task of the dispatch of frame n has returned.
C25_DispatchInOrder ==
    /\ \A i, j \in 1..Len(ltasks) :
          (/\ ltasks[i].frame < ltasks[j].frame
           /\ ltasks[j].pc # "created")
             => ltasks[i].pc # "created"
    /\ \A i \in 1..Len(ltasks) :
          ltasks[i].frame < loop.frame => ltasks[i].pc = "done"

\* a listener of the second frame is running after the listeners of the
\* first frame, each suspended at some moment, have all returned
C25_Witness ==
    /\ loop.frame = 2
    /\ \E j \in 1..Len(ltasks) :
          /\ ltasks[j].frame = 2
          /\ ltasks[j].kind = "listener"
          /\ ltasks[j].pc = "running"
    /\ Cardinality({i \in 1..Len(ltasks) :
                       /\ ltasks[i].frame = 1
                       /\ ltasks[i].kind = "listener"
                       /\ ltasks[i].pc = "done"}) = EventListeners

\* the listeners an ExceptionEvent reaches
XListeners(D) == ListenersUnder(D, "ExceptionEvent") \o ListenersUnder(D, "Event")

\* C29: a listener that raises on an application event leaves the tasks of
\* the other listeners as they are and makes _run_listener dispatch exactly
\* one ExceptionEvent carrying the exception, the event and the listener, to
\* the listeners of ExceptionEvent and Event; a listener that returns, is
\* cancelled, or raises on an ExceptionEvent dispatches nothing, so there are
\* never more ExceptionEvents than tasks of application events.
C29_ListenerFailureReported ==
    /\ [](Len(xlog) <= Cardinality(ETasks(ttasks)))
    /\ [][\A t \in 1..Len(ttasks) :
             \A outcome \in {"done", "raised", "cancelled"} :
                TDRunListener(t, outcome)
                   => /\ \A u \in (1..Len(ttasks)) \ {t} :
                            ttasks'[u] = ttasks[u]
                      /\ IF outcome = "raised" /\ ttasks[t].event.cls = "E"
                         THEN LET x == ExceptionEvent(t, ttasks[t].event.n,
                                                      ttasks[t].listener)
                              IN  /\ xlog' = Append(xlog, x)
                                  /\ Len(ttasks') =
                                        Len(ttasks) + Len(XListeners(td))
                                  /\ \A u \in (Len(ttasks) + 1)..Len(ttasks') :
                                        /\ ttasks'[u].event = x
                                        /\ ttasks'[u].pc = "created"
                         ELSE /\ xlog' = xlog
                              /\ Len(ttasks') = Len(ttasks)]_vars

\* a listener raised on an application event, another listener of that
\* event returned afterwards, and a listener of the ExceptionEvent raised
C29_Witness ==
    \E t, u, v \in 1..Len(ttasks) :
       /\ ttasks[t].event.cls = "E" /\ ttasks[t].pc = "raised"
       /\ u # t
       /\ ttasks[u].event = ttasks[t].event /\ ttasks[u].pc = "done"
       /\ ttasks[v].event.cls = "ExceptionEvent"
       /\ ttasks[v].event.exception = t
       /\ ttasks[v].pc = "raised"
       /\ Len(xlog) = 1


\* ------------------------------------------------------ timed lock claims

\* the global lock and the lock of every Bucket, by name (0: the global one)
LockIds == 0..Len(bucketObjs)
LockOf(i) == IF i = 0 THEN global_lock ELSE bucketObjs[i].lock
LockOfNext(i) == IF i = 0 THEN global_lock' ELSE bucketObjs'[i].lock
WaitsOn(rq, i) ==
    IF i = 0 THEN rq.pc \in GWait ELSE rq.pc \in BWait /\ rq.bucket = i
ReadyOn(rq, i) ==
    IF i = 0 THEN rq.pc \in GReady ELSE rq.pc \in BReady /\ rq.bucket = i

\* C31: a closed lock has exactly one timer pending, the one of the lock_for
\* that closed it; no step (a further lock_for included) adds a timer to a
\* closed lock or pushes its timer back; the lock opens only when that timer
\* is due, and in that step every task suspended in wait() on it is woken.
C31_LockForClosedIsNoOp ==
    /\ [](\A i \in LockIds :
             /\ Len(LockOf(i).timers) = IF LockOf(i).isset THEN 0 ELSE 1
             /\ LockOf(i).isset => \A r \in Reqs : ~WaitsOn(req[r], i))
    /\ [][\A i \in LockIds :
             ~LockOf(i).isset =>
                IF LockOfNext(i).isset
                THEN /\ LockOf(i).timers[1] = 0
                     /\ \A r \in Reqs :
                           WaitsOn(req[r], i) => ReadyOn(req'[r], i)
                ELSE /\ Len(LockOfNext(i).timers) = 1
                     /\ LockOfNext(i).timers[1] <= LockOf(i).timers[1]]_vars

\* two calls wait on the global lock after a global 429 each, with different
\* Retry-After: the second lock_for found the lock closed
C31_Witness ==
    \E r1, r2 \in Reqs :
        /\ req[r1].pc = "gwait240" /\ req[r2].pc = "gwait240"
        /\ req[r1].retry_after # req[r2].retry_after
        /\ ~global_lock.isset
        /\ Len(global_lock.timers) = 1


\* ----------------------------------------------------------- bucket claims

\* C32: whatever the order of update_from and acquire calls, with headers
\* that have 0 <= X-RateLimit-Remaining <= X-RateLimit-Limit and a limit of
\* at least 1, the Bucket keeps 0 <= remaining <= limit, and a call raises
\* remaining only from 0.
C32_RemainingWithinLimit ==
    /\ [](/\ 0 <= bucketObjs[1].remaining
          /\ bucketObjs[1].remaining <= bucketObjs[1].limit)
    /\ [][bucketObjs'[1].remaining > bucketObjs[1].remaining
             => bucketObjs[1].remaining = 0]_vars

\* update_from has raised remaining from 0 to the limit the response
\* carried, on a bucket that acquire() had auto-locked before
C32_Witness ==
    /\ bucketObjs[1].enabled
    /\ bucketObjs[1].limit = MaxLimit
    /\ bucketObjs[1].remaining = MaxLimit
    /\ ~bucketObjs[1].lock.isset


\* --------------------------------------------------- request() argument claims

ClosedWith(c, codes) ==
    /\ wsObjs[c].st = "open"
    /\ wsObjs'[c].st = "closed"
    /\ wsObjs'[c].close_code \in codes

SessionCleared ==
    /\ shard'.session_id = NoStr
    /\ shard'.resume_url = NoStr
    /\ shard'.sequence = None

\* connect() was called and chose the default gateway URL
ConnectsFresh ==
    /\ Len(wsObjs') = Len(wsObjs) + 1
    /\ wsObjs'[Len(wsObjs')].url = "gateway"

\* C34: the handling of close code 4001, 4002 or 4005 clears session_id,
\* resume_url and sequence and calls connect() to the default URL when
\* should_reconnect is set, and leaves the shard disconnected without a new
\* connection when it is not; no RESUME is sent on the connection that
\* follows such a close.
C34_InternalCloseResets ==
    [][\A c \in 1..Len(wsObjs) :
          /\ ClosedWith(c, {4001, 4002, 4005}) =>
                IF shard.should_reconnect
                THEN SessionCleared /\ ConnectsFresh
                ELSE shard'.ws = 0 /\ Len(wsObjs') = Len(wsObjs)
          /\ (/\ c > 1
              /\ wsObjs[c - 1].close_code \in {4001, 4002, 4005}
              /\ shard.should_reconnect)
                => wsObjs'[c].resume = << >>]_vars

\* websocket c, the shard's latest, was closed by the gateway with a code
\* below 2000 or with 4003, 4007 or 4009
FreshCodes == {1000, 4003, 4007, 4009}
ClosedFresh(c) == Len(wsObjs) = c /\ wsObjs[c].close_code \in FreshCodes

\* C35: the handling of a close code below 2000 or of 4003, 4007 or 4009
\* clears the session and calls connect() to the default gateway URL; the
\* connection that follows carries no RESUME, and after the close a new
\* websocket is eventually open with a connection task reading it.
C35_FreshReconnect ==
    /\ [][\A c \in 1..Len(wsObjs) :
             /\ ClosedWith(c, FreshCodes) => SessionCleared /\ ConnectsFresh
             /\ (c > 1 /\ wsObjs[c - 1].close_code \in FreshCodes)
                   => wsObjs'[c].resume = << >>]_vars
    /\ \A c \in 1..(MaxWs - 1) : ClosedFresh(c) ~> Reconnected(c)


\* ------------------------------------------------------ reset window claims

\* C36: `remaining` is never negative, that is, no more than `limit`
\* acquire() calls have returned since the reset timer last fired (every
\* return takes one from `remaining`, which the reset puts back to `limit`),
\* whatever the order of new calls and resuming waiters after a reset.
C36_RemainingNeverNegative == tp.remaining >= 0


\* ------------------------------------------------------- shard identity claims

\* C37: every shard rescale(count) has created carries a shard id below
\* count and shard_count = count, so the "shard" pair of its IDENTIFY is
\* [id, count] with id < count.
C37_RescaledShardIdentity ==
    pending_shard_count # None =>
        \A i \in 1..Len(pending_shards) :
            LET sh == shardObjs[pending_shards[i]]
            IN  /\ sh.shard_id \in 0..(pending_shard_count - 1)
                /\ sh.shard_count = pending_shard_count
                /\ sh.shard_id < sh.shard_count


\* ------------------------------------------------------ listener failure claims

\* C38: a listener that raised has not ended the connection task: the task
\* is reading or awaiting a dispatch, so the frames that follow are still
\* read and dispatched.
C38_ListenerFailureKeepsReading ==
    (\E t \in 1..Len(ltasks) :
        ltasks[t].kind = "listener" /\ ltasks[t].pc = "raised")
       => loop.pc \in {"reading", "awaiting"}


C40_RemoveEventHandlerRemoves ==
    [][(RDRemoveHandler /\ rd.event_handlers >= 1)
          => rd'.event_handlers = rd.event_handlers - 1]_vars

====
